---- MODULE Spec2Model ----
(***************************************************************************)
(* A model of PyGenGuard's cooperative decision pipeline                   *)
(* (pygenguard/async_guard/guard.py) together with the plugin registry it  *)
(* consumes (pygenguard/plugins/base.py).                                  *)
(*                                                                         *)
(* One AsyncGuard.inspect call is followed from its first line to its      *)
(* return: every await of the coroutine is a separate step, the plugin     *)
(* tasks of one asyncio.gather interleave, and the results of the checks   *)
(* (which are code outside the pipeline) are drawn nondeterministically    *)
(* when the check runs.                                                    *)
(***************************************************************************)
EXTENDS Integers, Sequences, FiniteSets, TLC

(***************************************************************************)
(* Bounds of the model.                                                    *)
(***************************************************************************)
\* number of plugin classes registered with the guard's registry
MaxPlugins == 2
\* longest prompt (in characters) submitted to inspect
MaxPromptLen == 2
\* number of plugins sharing one phase in the fan-out specification
FanOut == 3
\* largest tokens_used of the session before the call
MaxTokens == 2
\* number of (prompt, session) pairs handed to inspect_batch
BatchSize == 3
\* number of threads that call the session store
MaxThreads == 2
\* number of calls made to the session store
MaxOps == 3
\* how far the clock runs
MaxTime == 2

(***************************************************************************)
(* plugins/base.py: PlanePhase, PlaneConfig                                *)
(***************************************************************************)
PRE_IDENTITY == 0
POST_IDENTITY == 1
POST_INTENT == 2
POST_CONTEXT == 3
POST_ECONOMICS == 4
POST_COMPLIANCE == 5

PlanePhase ==
    {PRE_IDENTITY, POST_IDENTITY, POST_INTENT, POST_CONTEXT, POST_ECONOMICS,
     POST_COMPLIANCE}

FailActions == {"block", "degrade", "log"}

BuiltinNames == {"identity", "intent", "context", "economics", "compliance"}

\* names of the plugin classes, in the order in which they are registered
PluginNameSeq == <<"p1", "p2", "p3", "p4", "p5">>

\* priorities the registered classes declare: the second class sorts before
\* the first one, the third one ties with the first
PrioritySeq == <<50, 5, 50, 5, 50>>

\* A plugin class is the PlaneConfig its get_config returns (name, phase,
\* enabled, priority, fail_action) together with `reports`, the plane_name its
\* evaluate writes into the PlaneResult it returns.

VARIABLES
    global_registry,\* PlaneRegistry._global_registry: classes in insertion order
    registry,       \* PlaneRegistry._local_registry: classes in insertion order
    instances,      \* AsyncGuard._plugin_instances: name -> instance state
    session,        \* the Session handed to inspect
    prompt,         \* len(prompt) of the call
    pc,             \* where the inspect coroutine stands
    stage,          \* position in the pipeline (index into Pipeline)
    plane_results,  \* the call's plane_results dict
    tasks,          \* plugin names handed to asyncio.gather, in list order
    results,        \* per task: its state and its outcome
    decision,       \* the Decision built by the call
    audit,          \* Decisions handed to AuditLogger.log, in call order
    returned,       \* what the caller of inspect received
    started,        \* history: <<check, stage>> of every check that began
    finished,       \* history: checks that completed (returned or raised)
    econ_seen,      \* history: tokens_used read by the economics check
    verdicts,       \* history: plugin -> how its evaluate_async ended
    session0,       \* history: the session as it was when the call began
    audit_fault,    \* history: AuditLogger.log raised
    effects,        \* history: side effects of the phase's plugin checks, in order
    requests,       \* inspect_batch: the pairs handed in, each named by an id
    items,          \* inspect_batch: per pair, the state of its inspect task
    completed,      \* history: indices of the batch's tasks in completion order
    batch,          \* inspect_batch: where the call stands and what it returned
    cfg,            \* session store: which backend, and its default_ttl
    now,            \* the clock the store reads
    store,          \* session store: user_id -> stored object and expiry
    heap,           \* SessionData objects: id -> fields
    threads,        \* per thread: the update_trust/increment_tokens call in progress
    ops,            \* number of store calls made so far
    sets,           \* history: user_id -> the last set call that stored it
    dead,           \* history: user_ids whose entry's expiry time has passed
    credited,       \* history: user_id -> tokens_used the successful calls add up to
    last,           \* history: the store call that returned last, and what it returned
    sd,             \* SessionData: the object handed to to_json
    wire,           \* SessionData: the serialized record, as JSON members in order
    restored,       \* SessionData: what from_json gave back
    sdpc,           \* SessionData: where the round trip stands
    registry2,      \* a second PlaneRegistry object's _local_registry
    reg_call,       \* history: the registry call made last, and whether it raised
    regtime,        \* history: <<scope, name>> -> the call that registered the class
    made,           \* history: plugin name -> instances the guard has created of it
    calls,          \* number of inspect calls made on the guard
    skipped,        \* history: plugins an earlier call left out as disabled
    peer,           \* a concurrent inspect_sync call inside _get_plugins_for_phase
    outcomes,       \* history: built-in check -> the passed flag it returned in the call
    client,         \* Redis store object: sync or async, and its _connected flag
    server,         \* the Redis server: reachable or not, and its keys
    rcall,          \* history: the Redis store call made last and how it ended
    ctor,           \* AsyncGuard(...): the arguments, and what the constructor did
    executor,       \* AsyncGuard._executor: pools made for it, shutdown calls, open
    temp_pools,     \* history: pools that calls on the guard created for themselves
    gcall,          \* history: the guard method called last and how it ended
    bqueue,         \* AsyncBatcher._queue: the requests put and not yet taken
    futures,        \* AsyncBatcher: per submit call, its future and the call's state
    processor,      \* AsyncBatcher._task: the _processor coroutine
    b_started       \* AsyncBatcher._started

\* the inspect call and the guard it runs on
callVars ==
    <<global_registry, registry, instances, session, prompt, pc, stage, plane_results, tasks,
      results, decision, audit, returned, started, finished, econ_seen,
      verdicts, session0, audit_fault, effects>>

batchVars == <<requests, items, completed, batch>>

storeVars == <<cfg, now, store, heap, threads, ops, sets, dead, credited, last>>

dataVars == <<sd, wire, restored, sdpc>>

\* what an inspect call, a batch and a store call leave alone
regVars == <<registry2, reg_call, regtime>>

lifeVars == <<made, calls, skipped, peer, outcomes>>

redisVars == <<client, server, rcall>>

poolVars == <<ctor, executor, temp_pools, gcall>>

batcherVars == <<bqueue, futures, processor, b_started>>

moreVars == <<poolVars, batcherVars>>

extVars == <<dataVars, regVars, lifeVars, redisVars, moreVars>>

vars == <<callVars, batchVars, storeVars, extVars>>

(***************************************************************************)
(* Small helpers on dicts (functions with a finite domain).                *)
(***************************************************************************)
EmptyDict == [k \in {} |-> TRUE]

\* ttl=None, and the expiry None of an entry that does not expire
NoTtl == -1

Put(d, k, v) == [x \in (DOMAIN d) \cup {k} |-> IF x = k THEN v ELSE d[x]]

(***************************************************************************)
(* plugins/base.py: PlaneRegistry.  A registry dict is a sequence of       *)
(* classes (each class is identified with the PlaneConfig it declares),    *)
(* kept in insertion order as a Python dict keeps its keys.                *)
(***************************************************************************)
NamesOf(reg) == {reg[i].name : i \in DOMAIN reg}

Lookup(reg, n) == reg[CHOOSE i \in DOMAIN reg : reg[i].name = n]

\* (the dict of get_all built the other way round: the global class wins)
GetAllGlobalWins(glob, loc) ==
    LET IsNew(c) == c.name \notin NamesOf(glob)
    IN  glob \o SelectSeq(loc, IsNew)

\* get_all: dict(self._global_registry) followed by update(self._local_registry)
GetAll(glob, loc) ==
    LET shadowed == [i \in DOMAIN glob |->
                        IF glob[i].name \in NamesOf(loc)
                        THEN Lookup(loc, glob[i].name) ELSE glob[i]]
        IsNew(c) == c.name \notin NamesOf(glob)
    IN  shadowed \o SelectSeq(loc, IsNew)

\* one step of Python's stable sort: c goes behind every class whose priority
\* is not greater than its own
InsertByPriority(s, c) ==
    LET NotAfter(d) == d.priority <= c.priority
        After(d) == d.priority > c.priority
    IN  SelectSeq(s, NotAfter) \o <<c>> \o SelectSeq(s, After)

RECURSIVE SortedByPriority(_)
SortedByPriority(s) ==
    IF s = << >> THEN << >>
    ELSE InsertByPriority(SortedByPriority(SubSeq(s, 1, Len(s) - 1)), s[Len(s)])

\* (the classes of the phase in the order of get_all, the sort left out)
GetByPhaseUnsorted(glob, loc, phase) ==
    LET InPhase(c) == c.phase = phase
    IN  SelectSeq(GetAll(glob, loc), InPhase)

\* get_by_phase: the classes of get_all whose phase is `phase`, sorted by priority
GetByPhase(glob, loc, phase) ==
    LET InPhase(c) == c.phase = phase
    IN  SortedByPriority(SelectSeq(GetAll(glob, loc), InPhase))

(***************************************************************************)
(* async_guard/guard.py: AsyncGuard._get_plugins_for_phase                 *)
(***************************************************************************)
\* BasePlane.__init__: the instance takes its config from its class
NewInstance(cls) == [enabled |-> cls.enabled, cls |-> cls]

\* the instance map after the loop: every class of the phase has an instance
InstancesAfter(inst, classes) ==
    [n \in (DOMAIN inst) \cup NamesOf(classes) |->
        IF n \in DOMAIN inst THEN inst[n] ELSE NewInstance(Lookup(classes, n))]

\* one more instance made under each of the given names
Count(m, names) ==
    [n \in (DOMAIN m) \cup names |->
        (IF n \in DOMAIN m THEN m[n] ELSE 0) + (IF n \in names THEN 1 ELSE 0)]

\* line 141, plane_class(): an instance is made for every name that had none
MadeAfter(m, inst, after) == Count(m, (DOMAIN after) \ (DOMAIN inst))

\* (every instance of the phase, whatever its enabled flag)
GetPluginsForPhaseAll(glob, loc, inst, phase) ==
    LET classes == GetByPhase(glob, loc, phase)
    IN  [i \in DOMAIN classes |-> classes[i].name]

\* the names of the enabled instances of the phase, in get_by_phase order
GetPluginsForPhase(glob, loc, inst, phase) ==
    LET classes == GetByPhase(glob, loc, phase)
        after == InstancesAfter(inst, classes)
        names == [i \in DOMAIN classes |-> classes[i].name]
        Enabled(n) == after[n].enabled
    IN  SelectSeq(names, Enabled)

(***************************************************************************)
(* pygenguard/decision.py (not part of the sources at hand): the Decision  *)
(* factories, as section 3 of the specification describes the record.      *)
(***************************************************************************)
NoDecision ==
    [action |-> "NONE", allowed |-> FALSE, rationale |-> "",
     safe_response |-> "", plane_results |-> EmptyDict]

CreateBlock(pr, why, safe) ==
    [action |-> "BLOCK", allowed |-> FALSE, rationale |-> why,
     safe_response |-> safe, plane_results |-> pr]

CreateDegrade(pr, why) ==
    [action |-> "DEGRADE", allowed |-> TRUE, rationale |-> why,
     safe_response |-> "degraded", plane_results |-> pr]

CreateAllow(pr, why) ==
    [action |-> "ALLOW", allowed |-> TRUE, rationale |-> why,
     safe_response |-> "", plane_results |-> pr]

(***************************************************************************)
(* async_guard/guard.py: AsyncGuard.inspect.  The body of inspect is       *)
(* straight-line code; Pipeline lists its eleven sections in the order of  *)
(* the source, each with what the section does when a check of it fails.   *)
(***************************************************************************)
\* (a failed compliance check handled by a copy of the identity branch too)
PlaneOnFailComplianceBlocks(n) ==
    IF n = "economics" THEN "degrade" ELSE "block"

\* (a failed economics check stored like a compliance result, without the
\* create_degrade return)
PlaneOnFailEconomicsRecords(n) ==
    IF n \in {"identity", "intent", "context"} THEN "block" ELSE "record"

\* (every failing built-in handled by a copy of the identity branch)
PlaneOnFailAlwaysBlock(n) == IF n = "compliance" THEN "record" ELSE "block"

\* what a section does when its built-in check returns passed=False:
\* create_block (lines 215-223, 241-249, 268-276), create_degrade (lines
\* 295-302), or nothing beyond storing the result (line 318)
PlaneOnFail(n) ==
    IF n \in {"identity", "intent", "context"} THEN "block"
    ELSE IF n = "economics" THEN "degrade"
    ELSE "record"

\* (the PRE_IDENTITY loop written like the loops of the other phases)
PluginOnFailRecordOnly(ph) == "record"

\* what a section does when a plugin of its phase returns passed=False:
\* create_block in the PRE_IDENTITY loop (lines 194-205), nothing beyond
\* storing the result in the other five loops (lines 229-231 and its copies)
PluginOnFail(ph) == IF ph = PRE_IDENTITY THEN "block" ELSE "record"

PluginStage(ph, why, safe) ==
    [kind |-> "plugins", phase |-> ph, name |-> "", on_fail |-> PluginOnFail(ph),
     rationale |-> why, safe_response |-> safe]

PlaneStage(n, why, safe) ==
    [kind |-> "plane", phase |-> -1, name |-> n, on_fail |-> PlaneOnFail(n),
     rationale |-> why, safe_response |-> safe]

Pipeline ==
    << PluginStage(PRE_IDENTITY, "Pre-identity plugin failed",
                   "Request validation failed."),
       PlaneStage("identity", "Identity check failed",
                  "Session verification required."),
       PluginStage(POST_IDENTITY, "", ""),
       PlaneStage("intent", "Intent analysis failed",
                  "I can't help with that request."),
       PluginStage(POST_INTENT, "", ""),
       PlaneStage("context", "Context analysis failed",
                  "This conversation cannot continue."),
       PluginStage(POST_CONTEXT, "", ""),
       PlaneStage("economics", "Rate limiting applied", ""),
       PluginStage(POST_ECONOMICS, "", ""),
       PlaneStage("compliance", "", ""),
       PluginStage(POST_COMPLIANCE, "", "") >>

LastStage == Len(Pipeline)

\* a PlaneResult (kind "result") or the exception gather returns in its place
PlaneResult(n, ok) == [kind |-> "result", plane_name |-> n, passed |-> ok]
RaisedException == [kind |-> "exc", plane_name |-> "", passed |-> FALSE]

\* what evaluate_async of an instance of class cls may produce
PluginOutcomes(cls) ==
    {RaisedException} \cup {PlaneResult(cls.reports, ok) : ok \in BOOLEAN}

\* a gather slot: the task's state, and its outcome once it is done
NewTask == [state |-> "new", out |-> RaisedException]

\* plane_results[result.plane_name] = result  (by: the check that made it)
Record(pr, res, by) ==
    Put(pr, res.plane_name, [passed |-> res.passed, by |-> by])

\* index of the first failed PlaneResult in a gather result list, 0 if none
FirstFailed(res) ==
    LET bad == {i \in DOMAIN res :
                    res[i].out.kind = "result" /\ ~res[i].out.passed}
    IN  IF bad = {} THEN 0
        ELSE CHOOSE i \in bad : \A j \in bad : i <= j

\* the loop `for result in results: if isinstance(result, PlaneResult): ...`
\* run over the first n results
RECURSIVE RecordResults(_, _, _, _)
RecordResults(pr, names, res, n) ==
    IF n = 0 THEN pr
    ELSE LET before == RecordResults(pr, names, res, n - 1)
         IN  IF res[n].out.kind = "result"
             THEN Record(before, res[n].out, names[n])
             ELSE before

(***************************************************************************)
(* pygenguard/session.py (not part of the sources at hand):                *)
(* Session.increment_tokens adds the count to tokens_used.                 *)
(***************************************************************************)
SessionIncrementTokens(sess, n) ==
    [sess EXCEPT !.tokens_used = sess.tokens_used + n]

\* (the charge made a second time, as a retry of the economics section would)
EnterEconomicsTwice(sess, len) ==
    SessionIncrementTokens(SessionIncrementTokens(sess, len), len)

\* (the charge of line 289 left out)
EnterEconomicsNoCharge(sess, len) == sess

\* guard.py line 289: what inspect does to the session on entering economics
EnterEconomics(sess, len) == SessionIncrementTokens(sess, len)

\* (a return path that does not await _log_async)
LogAsyncSkipped(log, d) == log

\* guard.py line 342: _log_async hands the Decision to AuditLogger.log
LogAsync(log, d) == Append(log, d)

(***************************************************************************)
(* The state in which a guard with its plugins registered is about to      *)
(* serve one inspect call.                                                 *)
(***************************************************************************)
\* the registries a guard may hold: the first n classes of the catalogue,
\* each with a phase, an enabled flag and a fail action of its own
\* (every plugin reports its results under its own name); `flags` and `fas`
\* are the values the classes give to PlaneConfig.enabled and to
\* PlaneConfig.fail_action
PluginClass(i, ph, en, fa) ==
    [name |-> PluginNameSeq[i], phase |-> ph, enabled |-> en,
     priority |-> PrioritySeq[i], fail_action |-> fa,
     reports |-> PluginNameSeq[i]]

\* assignments of phases to n classes; the classes are listed by phase, and
\* PrioritySeq makes the order within a phase differ from the order of
\* registration
PhasesOf(n) ==
    {ph \in [1..n -> PlanePhase] : \A i \in 1..(n - 1) : ph[i] <= ph[i + 1]}

Registries(n, flags, fas) ==
    { [i \in 1..n |-> PluginClass(i, ph[i], en[i], fa[i])] :
        ph \in PhasesOf(n), en \in [1..n -> flags],
        fa \in [1..n -> fas] }

InitCall(regs, prompts, used) ==
    /\ global_registry = << >>
    /\ registry \in regs
    /\ instances = EmptyDict
    /\ session \in [tokens_used : used]
    /\ prompt \in prompts
    /\ pc = "idle"
    /\ stage = 0
    /\ plane_results = EmptyDict
    /\ tasks = << >>
    /\ results = << >>
    /\ decision = NoDecision
    /\ audit = << >>
    /\ returned = NoDecision
    /\ started = {}
    /\ finished = {}
    /\ econ_seen = -1
    /\ verdicts = EmptyDict
    /\ session0 = session
    /\ audit_fault = FALSE
    /\ effects = << >>

\* no inspect_batch call
NoBatch ==
    /\ requests = << >>
    /\ items = << >>
    /\ completed = << >>
    /\ batch = [pc |-> "idle", out |-> << >>]

\* no store call has returned yet
NoCall == [op |-> "", uid |-> "", ret |-> "", absent |-> FALSE, n |-> 0]

\* no session store attached (session_store=None, guard.py line 57)
NoStore ==
    /\ cfg = [backend |-> "none", default_ttl |-> NoTtl]
    /\ now = 0
    /\ store = EmptyDict
    /\ heap = EmptyDict
    /\ threads = << >>
    /\ ops = 0
    /\ sets = EmptyDict
    /\ dead = {}
    /\ credited = EmptyDict
    /\ last = NoCall

\* no SessionData is being serialized
NoData ==
    /\ sd = EmptyDict
    /\ wire = << >>
    /\ restored = [raised |-> FALSE, data |-> EmptyDict]
    /\ sdpc = "idle"

\* no second registry object, no registry call yet
NoReg ==
    /\ registry2 = << >>
    /\ reg_call = [n |-> 0, op |-> "", r |-> 0, cls |-> [name |-> ""],
                   override |-> FALSE, raised |-> FALSE]
    /\ regtime = EmptyDict

\* a guard on its first call, alone
NoLife ==
    /\ made = EmptyDict
    /\ calls = 1
    /\ skipped = {}
    /\ peer = [pc |-> "idle", cls |-> [name |-> ""]]
    /\ outcomes = EmptyDict

\* no Redis store
NoRedis ==
    /\ client = [kind |-> "none", connected |-> FALSE]
    /\ server = [up |-> FALSE, keys |-> {}]
    /\ rcall = [n |-> 0, op |-> "", uid |-> "", ret |-> "", fault |-> FALSE,
                raised |-> FALSE]

\* no guard under construction, none closed
NoPool ==
    /\ ctor = [mode |-> "balanced", done |-> TRUE, raised |-> FALSE,
               preset |-> "balanced"]
    /\ executor = [made |-> 1, shutdowns |-> 0, open |-> TRUE]
    /\ temp_pools = 0
    /\ gcall = [n |-> 0, op |-> "", raised |-> FALSE]

\* no AsyncBatcher
NoBatcher ==
    /\ bqueue = << >>
    /\ futures = << >>
    /\ processor = [state |-> "none", batch |-> << >>]
    /\ b_started = FALSE

NoMore == NoPool /\ NoBatcher

NoExt == NoData /\ NoReg /\ NoLife /\ NoRedis /\ NoMore

\* one guard, serving one inspect call
InitWith(regs, prompts, used) ==
    InitCall(regs, prompts, used) /\ NoBatch /\ NoStore /\ NoExt

\* FanOut plugins that share one phase, with PlaneConfig's defaults
FanOutRegistries ==
    { [i \in 1..FanOut |-> PluginClass(i, ph, TRUE, "block")] :
        ph \in PlanePhase }

InitFanOut == InitWith(FanOutRegistries, {1}, {0})

\* up to MaxPlugins plugins with PlaneConfig's defaults enabled=True and
\* fail_action="block", a fresh session, a prompt of one character
Init ==
    InitWith(UNION {Registries(n, {TRUE}, {"block"}) : n \in 0..MaxPlugins},
             {1}, {0})

\* at most one plugin, enabled or not, with any fail action, any prompt and
\* any token count within the bounds
InitTokens ==
    InitWith(Registries(0, BOOLEAN, FailActions)
                 \cup Registries(1, BOOLEAN, FailActions),
             0..MaxPromptLen, 0..MaxTokens)

\* (the sections of the built-in checks passed over)
PcOfStagePluginsOnly(s) == "plugins"

\* where the coroutine goes after stage s completed without a verdict
PcOfStage(s) == IF Pipeline[s].kind = "plugins" THEN "plugins" ELSE "plane"

\* (an await that ends as soon as one task has ended, as asyncio.wait with
\* FIRST_COMPLETED would)
GatherFirstDone(res) ==
    res = << >> \/ \E i \in DOMAIN res : res[i].state = "done"

\* asyncio.gather(*tasks, return_exceptions=True), line 169: the await ends
\* when every task has ended, with a result or with an exception
GatherDone(res) == \A i \in DOMAIN res : res[i].state = "done"

\* the observable side effect of a plugin's check: `late` when it happens
\* after the check suspended at an await of its own
SideEffect(eff, name, late) == Append(eff, [name |-> name, late |-> late])

HadEffect(eff, name) == \E k \in DOMAIN eff : eff[k].name = name

\* how an outcome of evaluate_async is remembered in the history
VerdictOf(out) ==
    IF out.kind = "exc" THEN "raise" ELSE IF out.passed THEN "pass" ELSE "fail"

\* lines 184-186: a call begins with an empty plane_results
InspectStart ==
    /\ pc = "idle"
    /\ pc' = PcOfStage(1)
    /\ stage' = 1
    /\ plane_results' = EmptyDict
    /\ UNCHANGED <<global_registry, registry, instances, session, prompt,
                   tasks, results, decision, audit, returned, started,
                   finished, econ_seen, verdicts, session0, audit_fault,
                   effects>>
    /\ UNCHANGED <<batchVars, storeVars, extVars>>

\* _run_plugins, lines 160-169: collect the phase's plugins, create one
\* coroutine per plugin and hand them to asyncio.gather
RunPlugins ==
    /\ pc = "plugins"
    /\ LET ph == Pipeline[stage].phase
           plugins == GetPluginsForPhase(global_registry, registry,
                                         instances, ph)
       IN  /\ instances' =
                 InstancesAfter(instances,
                                GetByPhase(global_registry, registry, ph))
           /\ made' = MadeAfter(made, instances, instances')
           /\ tasks' = plugins
           /\ results' = [i \in DOMAIN plugins |-> NewTask]
    /\ pc' = "gather"
    /\ UNCHANGED <<global_registry, registry, session, prompt, stage,
                   plane_results, decision, audit, returned, started,
                   finished, econ_seen, verdicts, session0, audit_fault,
                   effects>>
    /\ UNCHANGED <<batchVars, storeVars, redisVars, moreVars, dataVars, regVars,
                   calls, skipped, peer, outcomes>>

\* the event loop starts the tasks of a gather in list order; a task runs
\* evaluate_async until it returns, raises or suspends at an await of its own;
\* the side effect of a check that suspends happens before the await or after
TaskRun(i) ==
    /\ pc = "gather"
    /\ i \in DOMAIN results
    /\ results[i].state = "new"
    /\ \A j \in 1..(i - 1) : results[j].state # "new"
    /\ started' = started \cup {<<tasks[i], stage>>}
    /\ \/ \E before \in BOOLEAN :
            /\ results' = [results EXCEPT ![i].state = "running"]
            /\ effects' = IF before THEN SideEffect(effects, tasks[i], FALSE)
                          ELSE effects
            /\ UNCHANGED <<finished, verdicts>>
       \/ \E out \in PluginOutcomes(instances[tasks[i]].cls) :
            /\ results' = [results EXCEPT ![i] = [state |-> "done", out |-> out]]
            /\ effects' = SideEffect(effects, tasks[i], FALSE)
            /\ finished' = finished \cup {tasks[i]}
            /\ verdicts' = Put(verdicts, tasks[i], VerdictOf(out))
    /\ UNCHANGED <<global_registry, registry, instances, session, prompt, pc,
                   stage, plane_results, tasks, decision, audit, returned,
                   econ_seen, session0, audit_fault>>
    /\ UNCHANGED <<batchVars, storeVars, extVars>>

\* a suspended plugin task is resumed and ends
TaskResume(i) ==
    /\ pc = "gather"
    /\ i \in DOMAIN results
    /\ results[i].state = "running"
    /\ \E out \in PluginOutcomes(instances[tasks[i]].cls) :
         /\ results' = [results EXCEPT ![i] = [state |-> "done", out |-> out]]
         /\ verdicts' = Put(verdicts, tasks[i], VerdictOf(out))
    /\ finished' = finished \cup {tasks[i]}
    /\ effects' = IF HadEffect(effects, tasks[i]) THEN effects
                  ELSE SideEffect(effects, tasks[i], TRUE)
    /\ UNCHANGED <<global_registry, registry, instances, session, prompt, pc,
                   stage, plane_results, tasks, started, decision, audit,
                   returned, econ_seen, session0, audit_fault>>
    /\ UNCHANGED <<batchVars, storeVars, extVars>>

\* gather returned: the loop over the results that follows each _run_plugins
\* (lines 194-205 for PRE_IDENTITY, 229-231 and its copies for the others),
\* and after the last phase lines 331-336
CollectPlugins ==
    /\ pc = "gather"
    /\ GatherDone(results)
    /\ LET st == Pipeline[stage]
           ff == FirstFailed(results)
           stop == st.on_fail = "block" /\ ff # 0
           pr == RecordResults(plane_results, tasks, results,
                               IF stop THEN ff ELSE Len(results))
       IN  /\ plane_results' = pr
           /\ IF stop
              THEN /\ decision' = CreateBlock(pr, st.rationale, st.safe_response)
                   /\ pc' = "log"
                   /\ UNCHANGED stage
              ELSE IF stage = LastStage
              THEN /\ decision' = CreateAllow(pr, "All security planes passed.")
                   /\ pc' = "log"
                   /\ UNCHANGED stage
              ELSE /\ stage' = stage + 1
                   /\ pc' = PcOfStage(stage + 1)
                   /\ UNCHANGED decision
    /\ tasks' = << >>
    /\ results' = << >>
    /\ effects' = << >>
    /\ UNCHANGED <<global_registry, registry, instances, session, prompt,
                   audit, returned, started, finished, econ_seen, verdicts,
                   session0, audit_fault>>
    /\ UNCHANGED <<batchVars, storeVars, extVars>>

\* _run_sync_plane, lines 147-150: a built-in check is submitted to the
\* executor (economics: after line 289 charged the prompt to the session)
PlaneDispatch ==
    /\ pc = "plane"
    /\ session' = IF Pipeline[stage].name = "economics"
                  THEN EnterEconomics(session, prompt) ELSE session
    /\ started' = started \cup {<<Pipeline[stage].name, stage>>}
    /\ pc' = "plane_wait"
    /\ UNCHANGED <<global_registry, registry, instances, prompt, stage,
                   plane_results, tasks, results, decision, audit, returned,
                   finished, econ_seen, verdicts, session0, audit_fault,
                   effects>>
    /\ UNCHANGED <<batchVars, storeVars, extVars>>

\* the executor ran the check and inspect resumes with its result
PlaneDone ==
    /\ pc = "plane_wait"
    /\ \E ok \in BOOLEAN :
        LET st == Pipeline[stage]
            pr == Put(plane_results, st.name, [passed |-> ok, by |-> st.name])
        IN  /\ plane_results' = pr
            /\ outcomes' = Put(outcomes, st.name, ok)
            /\ IF ~ok /\ st.on_fail = "block"
               THEN /\ decision' = CreateBlock(pr, st.rationale, st.safe_response)
                    /\ pc' = "log"
                    /\ UNCHANGED stage
               ELSE IF ~ok /\ st.on_fail = "degrade"
               THEN /\ decision' = CreateDegrade(pr, st.rationale)
                    /\ pc' = "log"
                    /\ UNCHANGED stage
               ELSE /\ stage' = stage + 1
                    /\ pc' = PcOfStage(stage + 1)
                    /\ UNCHANGED decision
    /\ econ_seen' = IF Pipeline[stage].name = "economics"
                    THEN session.tokens_used ELSE econ_seen
    /\ finished' = finished \cup {Pipeline[stage].name}
    /\ UNCHANGED <<global_registry, registry, instances, session, prompt,
                   tasks, results, audit, returned, started, verdicts,
                   session0, audit_fault,
                   effects>>
    /\ UNCHANGED <<batchVars, storeVars, redisVars, moreVars, dataVars, regVars,
                   made, calls, skipped, peer>>

\* _log_async, lines 339-342, then `return decision`: AuditLogger.log runs in
\* the executor; if it raises, the await raises and inspect returns nothing
AuditLog ==
    /\ pc = "log"
    /\ audit' = LogAsync(audit, decision)
    /\ \/ /\ pc' = "returned"
          /\ returned' = decision
          /\ UNCHANGED audit_fault
       \/ /\ pc' = "raised"
          /\ audit_fault' = TRUE
          /\ UNCHANGED returned
    /\ UNCHANGED <<global_registry, registry, instances, session, prompt,
                   stage, plane_results, tasks, results, decision, started,
                   finished, econ_seen, verdicts, session0,
                   effects>>
    /\ UNCHANGED <<batchVars, storeVars, extVars>>

Next ==
    \/ InspectStart
    \/ RunPlugins
    \/ \E i \in DOMAIN results : TaskRun(i)
    \/ \E i \in DOMAIN results : TaskResume(i)
    \/ CollectPlugins
    \/ PlaneDispatch
    \/ PlaneDone
    \/ AuditLog

Spec == Init /\ [][Next]_vars

SpecTokens == InitTokens /\ [][Next]_vars

SpecFanOut == InitFanOut /\ [][Next]_vars

(***************************************************************************)
(* What the specification says of the pipeline, in terms of the model.     *)
(***************************************************************************)
\* section 4.1: the position of a phase and of a built-in plane in the
\* fixed order PRE_IDENTITY, identity, POST_IDENTITY, intent, ...
RankOfPhase(ph) == 2 * ph + 1

RankOfPlane(n) ==
    CASE n = "identity" -> 2
      [] n = "intent" -> 4
      [] n = "context" -> 6
      [] n = "economics" -> 8
      [] n = "compliance" -> 10

\* the classes a lookup of the guard's registry sees
Visible == GetAll(global_registry, registry)

\* the plugins a call executes: registered, and not disabled
EnabledPlugins ==
    LET all == Visible
    IN  {all[i].name : i \in {j \in DOMAIN all :
            IF all[j].name \in DOMAIN instances
            THEN instances[all[j].name].enabled ELSE all[j].enabled}}

\* the position section 4.1 gives to every built-in plane and plugin
Ranks ==
    LET all == Visible
    IN  [n \in BuiltinNames \cup NamesOf(all) |->
            IF n \in BuiltinNames THEN RankOfPlane(n)
            ELSE RankOfPhase(Lookup(all, n).phase)]

\* C1: a check is only ever started in the position the fixed phase order
\* gives it, and when it starts every built-in check and every enabled plugin
\* of all earlier positions has finished.
C1_PhaseOrder ==
    LET rank == Ranks
        due == BuiltinNames \cup EnabledPlugins
    IN  \A e \in started :
            /\ e[2] = rank[e[1]]
            /\ \A d \in due : rank[d] < e[2] => d \in finished

\* two plugins of one phase and a full run behind them
C1_Witness ==
    /\ pc = "returned"
    /\ Len(registry) = 2
    /\ registry[1].phase = POST_INTENT
    /\ registry[2].phase = POST_INTENT
    /\ {"p1", "p2", "compliance"} \subseteq finished

\* the checks of the call, other than c, that did not pass
OtherFailures(c) ==
    {m \in (DOMAIN verdicts) \ {c} : verdicts[m] # "pass"} \cup
    {b \in (DOMAIN plane_results) \cap BuiltinNames :
        b # c /\ ~plane_results[b].passed}

\* plugin n was executed, and its check returned passed=False
PluginFailed(n) == n \in DOMAIN verdicts /\ verdicts[n] = "fail"

\* C2: a failed identity, intent or context check ends the call with BLOCK
\* and allowed=False, a failed economics check ends it with DEGRADE; the
\* Decision built at that moment is the one that is returned.
C2_BuiltinFailure ==
    \A b \in (DOMAIN plane_results) \cap BuiltinNames :
        (plane_results[b].by = b /\ ~plane_results[b].passed
            /\ b # "compliance") =>
            /\ pc \in {"log", "returned", "raised"}
            /\ pc = "returned" => returned = decision
            /\ b \in {"identity", "intent", "context"} =>
                  decision.action = "BLOCK" /\ ~decision.allowed
            /\ b = "economics" => decision.action = "DEGRADE"

\* a call that passed identity, intent and context and failed economics
C2_Witness ==
    /\ pc = "returned"
    /\ returned.action = "DEGRADE"
    /\ {"identity", "intent", "context", "economics"}
          \subseteq DOMAIN returned.plane_results
    /\ ~returned.plane_results["economics"].passed

\* C3: when an enabled plugin is the only check of a call that fails, the
\* returned Decision is BLOCK if the plugin's fail_action is block and
\* DEGRADE if it is degrade, whatever the plugin's phase.
C3_FailActionGoverns ==
    pc = "returned" =>
        \A n \in DOMAIN verdicts :
            (PluginFailed(n) /\ OtherFailures(n) = {}) =>
                LET fa == Lookup(Visible, n).fail_action
                IN  /\ fa = "block" => returned.action = "BLOCK"
                    /\ fa = "degrade" => returned.action = "DEGRADE"

\* C4: when an enabled plugin with fail_action=log is the only check of a
\* call that fails, its result is recorded, the pipeline runs on to the
\* compliance check and the returned Decision is ALLOW.
C4_LogOnlyRecords ==
    pc = "returned" =>
        \A n \in DOMAIN verdicts :
            (PluginFailed(n) /\ OtherFailures(n) = {}
                /\ Lookup(Visible, n).fail_action = "log") =>
                /\ n \in DOMAIN returned.plane_results
                /\ "compliance" \in DOMAIN returned.plane_results
                /\ returned.action = "ALLOW"

\* C5: a plugin whose check raised has an entry with passed=False in the
\* plane_results of the returned Decision, and a raising plugin whose
\* fail_action is block makes the Decision BLOCK.
C5_FaultSurfaced ==
    pc = "returned" =>
        \A n \in DOMAIN verdicts :
            verdicts[n] = "raise" =>
                /\ n \in DOMAIN returned.plane_results
                /\ ~returned.plane_results[n].passed
                /\ Lookup(Visible, n).fail_action = "block" =>
                      returned.action = "BLOCK"

\* C6: when a plugin of a phase raised, every other enabled plugin of that
\* phase ran to completion and, unless it raised itself, its result is in the
\* plane_results of the returned Decision; the call ends by returning, or by
\* a fault of the audit log, never by the plugin's exception.
C6_SiblingsRecorded ==
    /\ pc = "raised" => audit_fault
    /\ pc = "returned" =>
        \A n \in DOMAIN verdicts :
            verdicts[n] = "raise" =>
                \A m \in EnabledPlugins \ {n} :
                    Lookup(Visible, m).phase = Lookup(Visible, n).phase =>
                        /\ m \in DOMAIN verdicts
                        /\ verdicts[m] # "raise" =>
                              /\ m \in DOMAIN returned.plane_results
                              /\ returned.plane_results[m].by = m

\* C7: once an enabled PRE_IDENTITY plugin with fail_action=block has
\* returned passed=False, no check outside the PRE_IDENTITY phase is ever
\* started, and the Decision of the call is BLOCK.
C7_ShortCircuit ==
    \A n \in DOMAIN verdicts :
        (PluginFailed(n) /\ Lookup(Visible, n).phase = PRE_IDENTITY
            /\ Lookup(Visible, n).fail_action = "block") =>
            /\ \A e \in started : e[2] = RankOfPhase(PRE_IDENTITY)
            /\ pc \in {"gather", "log", "returned", "raised"}
            /\ pc # "gather" => decision.action = "BLOCK"
            /\ pc = "returned" => returned.action = "BLOCK"

\* a returned BLOCK caused by a blocking PRE_IDENTITY plugin
C7_Witness ==
    /\ pc = "returned"
    /\ returned.action = "BLOCK"
    /\ \E n \in DOMAIN verdicts :
          /\ PluginFailed(n)
          /\ Lookup(Visible, n).phase = PRE_IDENTITY
          /\ Lookup(Visible, n).fail_action = "block"

\* C8: from the moment the economics check is started, the session's
\* tokens_used is its value at the start of the call plus the length of the
\* prompt, and that is the value the economics check reads.
C8_TokensCharged ==
    /\ (\E e \in started : e[1] = "economics") =>
          session.tokens_used = session0.tokens_used + prompt
    /\ econ_seen # -1 => econ_seen = session0.tokens_used + prompt

\* an economics check that ran on a used session with a non-empty prompt
C8_Witness ==
    /\ "economics" \in finished
    /\ prompt = 2
    /\ session0.tokens_used = 1
    /\ econ_seen = 3

\* C9: a call makes at most one audit log call, and a call that returned a
\* Decision has made exactly one, with the Decision it returned.
C9_OneAudit ==
    /\ Len(audit) <= 1
    /\ pc = "returned" => audit = <<returned>>

\* a call that returned from the PRE_IDENTITY block, audited once
C9_Witness ==
    /\ pc = "returned"
    /\ returned.action = "BLOCK"
    /\ "identity" \notin DOMAIN returned.plane_results
    /\ audit = <<returned>>

\* C10: when the audit log call raised, the call still ended by returning
\* the Decision it had computed.
C10_AuditFaultContained ==
    audit_fault => (pc = "returned" /\ returned = decision)

(***************************************************************************)
(* The sequential strategy (pygenguard/guard.py, not part of the sources   *)
(* at hand), from section 4.1: every check runs in phase order and, within *)
(* a phase, in priority order on the caller's thread; a failed built-in    *)
(* check ends the evaluation as the failure table says, a failed plugin as *)
(* its own fail_action says.  `o` gives the outcome of every check.        *)
(***************************************************************************)
SeqVerdict(action, keys) ==
    [action |-> action, allowed |-> action # "BLOCK", keys |-> keys]

\* the plugins of one phase, from the k-th on; "" when none of them ended
\* the evaluation
RECURSIVE SeqPlugins(_, _, _, _)
SeqPlugins(ps, o, k, keys) ==
    IF k > Len(ps) THEN SeqVerdict("", keys)
    ELSE LET c == ps[k]
             seen == keys \cup {c.reports}
         IN  IF ~c.enabled THEN SeqPlugins(ps, o, k + 1, keys)
             ELSE IF o[c.name] = "fail" /\ c.fail_action = "block"
             THEN SeqVerdict("BLOCK", seen)
             ELSE IF o[c.name] = "fail" /\ c.fail_action = "degrade"
             THEN SeqVerdict("DEGRADE", seen)
             ELSE SeqPlugins(ps, o, k + 1, seen)

\* the sections of the pipeline from the s-th on
RECURSIVE SeqFrom(_, _, _, _, _)
SeqFrom(glob, loc, s, o, keys) ==
    IF s > LastStage THEN SeqVerdict("ALLOW", keys)
    ELSE LET st == Pipeline[s]
         IN  IF st.kind = "plugins"
             THEN LET v == SeqPlugins(GetByPhase(glob, loc, st.phase), o, 1, keys)
                  IN  IF v.action # "" THEN v
                      ELSE SeqFrom(glob, loc, s + 1, o, v.keys)
             ELSE LET seen == keys \cup {st.name}
                  IN  IF o[st.name] = "fail" /\ PlaneOnFail(st.name) = "block"
                      THEN SeqVerdict("BLOCK", seen)
                      ELSE IF o[st.name] = "fail"
                              /\ PlaneOnFail(st.name) = "degrade"
                      THEN SeqVerdict("DEGRADE", seen)
                      ELSE SeqFrom(glob, loc, s + 1, o, seen)

\* the outcomes of all checks that agree with what the checks of this call
\* returned (a check the call did not run may go either way)
OutcomesOfCall ==
    LET names == BuiltinNames \cup NamesOf(Visible)
    IN  {o \in [names -> {"pass", "fail"}] :
            /\ \A n \in DOMAIN verdicts : o[n] = verdicts[n]
            /\ \A b \in (DOMAIN plane_results) \cap BuiltinNames :
                  plane_results[b].by = b =>
                      (o[b] = "pass") = plane_results[b].passed}

\* C11: a call in which no check raised returns the action, the allowed flag
\* and the plane_results key set that the sequential strategy produces from
\* the same registry and the same outcomes of the checks.
C11_SameAsSequential ==
    (pc = "returned" /\ \A n \in DOMAIN verdicts : verdicts[n] # "raise") =>
        \E o \in OutcomesOfCall :
            LET v == SeqFrom(global_registry, registry, 1, o, {})
            IN  /\ v.action = returned.action
                /\ v.allowed = returned.allowed
                /\ v.keys = DOMAIN returned.plane_results

\* the priority of plugin n, whose instance the guard holds
PriorityOf(n) == instances[n].cls.priority

\* C12 as stated: of two plugins of a phase with different priorities, the
\* side effect of the one with the lower priority number happens first.
C12_SideEffectsByPriority ==
    LET prio == [n \in DOMAIN instances |-> PriorityOf(n)]
    IN  \A a, b \in DOMAIN effects :
            prio[effects[a].name] < prio[effects[b].name] => a < b

\* C12, amended: of two plugins of a phase with different priorities, the
\* check of the one with the lower priority number is started first, and its
\* side effect happens first unless that check suspended at an await of its
\* own before its side effect.
C12_StartedByPriority ==
    LET prio == [n \in DOMAIN instances |-> PriorityOf(n)]
    IN  /\ \A i, j \in DOMAIN results :
              prio[tasks[i]] < prio[tasks[j]] =>
                  /\ i < j
                  /\ results[j].state # "new" => results[i].state # "new"
        /\ \A a, b \in DOMAIN effects :
              (prio[effects[a].name] < prio[effects[b].name]
                  /\ ~effects[a].late) => a < b

\* two plugins of one phase, the second registered with the lower priority
\* number, whose checks both ran without suspending
C12_Witness ==
    /\ pc = "gather"
    /\ tasks = <<"p2", "p1">>
    /\ GatherDone(results)
    /\ effects = <<[name |-> "p2", late |-> FALSE],
                   [name |-> "p1", late |-> FALSE]>>

(***************************************************************************)
(* async_guard/guard.py: AsyncGuard.inspect_batch, lines 344-358.  Every   *)
(* pair gets an inspect coroutine of its own; an inspect call ends by      *)
(* returning its Decision or by raising (the "returned" and "raised" ends  *)
(* of the call modelled above).                                            *)
(***************************************************************************)
\* the batches handed in: up to BatchSize pairs, each with an id of its own
Batches ==
    UNION {{r \in [1..n -> 1..n] : \A i, j \in 1..n : r[i] = r[j] => i = j} :
                n \in 0..BatchSize}

\* the Decisions inspect can return for pair r
VerdictsFor(r) == {[for |-> r, action |-> a] : a \in {"ALLOW", "BLOCK"}}

NewItem == [state |-> "new", out |-> [for |-> 0, action |-> "NONE"]]

InitBatch ==
    /\ InitCall({<< >>}, {1}, {0})
    /\ NoStore
    /\ NoExt
    /\ requests \in Batches
    /\ items = << >>
    /\ completed = << >>
    /\ batch = [pc |-> "idle", out |-> << >>]

\* (the results put together in the order in which the tasks ended)
GatherInCompletionOrder(its, order) == [k \in DOMAIN order |-> its[order[k]].out]

\* asyncio.gather(*tasks), line 358: the list of results follows the order of
\* the awaitables handed in, not the order of completion
GatherResults(its, order) == [i \in DOMAIN its |-> its[i].out]

\* line 357: one inspect coroutine per pair, all handed to asyncio.gather
BatchStart ==
    /\ batch.pc = "idle"
    /\ items' = [i \in DOMAIN requests |-> NewItem]
    /\ batch' = [batch EXCEPT !.pc = "waiting"]
    /\ UNCHANGED <<requests, completed, callVars, storeVars, extVars>>

\* the event loop starts the tasks in list order; each inspect runs up to its
\* first await (the built-in checks are awaited from the executor)
ItemStart(i) ==
    /\ items[i].state = "new"
    /\ \A j \in 1..(i - 1) : items[j].state # "new"
    /\ items' = [items EXCEPT ![i].state = "running"]
    /\ UNCHANGED <<requests, completed, batch, callVars, storeVars, extVars>>

\* inspect of pair i returns its Decision (line 337 and the earlier returns)
ItemReturn(i) ==
    /\ items[i].state = "running"
    /\ \E d \in VerdictsFor(requests[i]) :
          items' = [items EXCEPT ![i] = [state |-> "done", out |-> d]]
    /\ completed' = Append(completed, i)
    /\ UNCHANGED <<requests, batch, callVars, storeVars, extVars>>

\* inspect of pair i raises (a fault that escapes the call)
ItemRaise(i) ==
    /\ items[i].state = "running"
    /\ items' = [items EXCEPT ![i].state = "raised"]
    /\ completed' = Append(completed, i)
    /\ UNCHANGED <<requests, batch, callVars, storeVars, extVars>>

\* line 358: every task returned, the await yields the list of Decisions
BatchReturn ==
    /\ batch.pc = "waiting"
    /\ \A i \in DOMAIN items : items[i].state = "done"
    /\ batch' = [pc |-> "returned", out |-> GatherResults(items, completed)]
    /\ UNCHANGED <<requests, items, completed, callVars, storeVars, extVars>>

\* line 358: gather is called without return_exceptions, so the first
\* exception of a task is raised in inspect_batch at once; the other tasks
\* run on
BatchRaise ==
    /\ batch.pc = "waiting"
    /\ \E i \in DOMAIN items : items[i].state = "raised"
    /\ batch' = [batch EXCEPT !.pc = "raised"]
    /\ UNCHANGED <<requests, items, completed, callVars, storeVars, extVars>>

NextBatch ==
    \/ BatchStart
    \/ \E i \in DOMAIN items : ItemStart(i)
    \/ \E i \in DOMAIN items : ItemReturn(i)
    \/ \E i \in DOMAIN items : ItemRaise(i)
    \/ BatchReturn
    \/ BatchRaise

SpecBatch == InitBatch /\ [][NextBatch]_vars

\* C13: when inspect_batch has ended and every task of the batch has ended,
\* one of them by raising, the caller holds the Decision of every pair whose
\* inspect returned one.
C13_BatchIsolation ==
    (/\ batch.pc \in {"returned", "raised"}
     /\ \A i \in DOMAIN items : items[i].state \in {"done", "raised"}) =>
        \A i \in DOMAIN items :
            items[i].state = "done" =>
                /\ batch.pc = "returned"
                /\ batch.out[i] = items[i].out

\* C14: the list inspect_batch returns has one Decision per pair handed in,
\* and its i-th element is the Decision the inspect of the i-th pair
\* returned.
C14_BatchOrder ==
    batch.pc = "returned" =>
        /\ Len(batch.out) = Len(requests)
        /\ \A i \in DOMAIN requests :
              /\ batch.out[i].for = requests[i]
              /\ batch.out[i] = items[i].out

\* a batch of three returned although its tasks ended last to first
C14_Witness ==
    /\ batch.pc = "returned"
    /\ Len(requests) = 3
    /\ completed = <<3, 2, 1>>
    /\ requests # <<1, 2, 3>>

(***************************************************************************)
(* Cancellation of the task that runs inspect.  The coroutine can only be  *)
(* cancelled where it is suspended: at the await of asyncio.gather (line   *)
(* 169), of a built-in check in the executor (line 150) and of the audit   *)
(* log call in the executor (line 342).  inspect has no try/except, so the *)
(* CancelledError leaves it.  A callable that an executor thread has taken *)
(* up is not stopped by cancelling the future that awaits it.              *)
(***************************************************************************)
Cancel ==
    /\ pc \in {"gather", "plane_wait", "log"}
    /\ pc' = "cancelled"
    /\ \E ran \in BOOLEAN :
          /\ audit' = IF pc = "log" /\ ran THEN LogAsync(audit, decision)
                      ELSE audit
          /\ finished' = IF pc = "plane_wait" /\ ran
                         THEN finished \cup {Pipeline[stage].name}
                         ELSE finished
    /\ UNCHANGED <<global_registry, registry, instances, session, prompt,
                   stage, plane_results, tasks, results, decision, returned,
                   started, econ_seen, verdicts, session0, audit_fault,
                   effects>>
    /\ UNCHANGED <<batchVars, storeVars, extVars>>

NextCancel == Next \/ Cancel

SpecCancel == InitTokens /\ [][NextCancel]_vars

\* C15: a cancelled inspect call has returned no Decision and no audit entry
\* has been written for it.
C15_CancelledLeavesNoTrace ==
    pc = "cancelled" => (returned = NoDecision /\ audit = << >>)

(***************************************************************************)
(* adapters/base.py, adapters/memory.py, adapters/redis.py: the session    *)
(* stores.  A SessionData object lives in `heap`; `store` maps a user_id   *)
(* to the object stored for it and to its expiry.  InMemorySessionStore    *)
(* hands out the stored object itself, RedisSessionStore a copy parsed     *)
(* from the stored JSON.  Every call of get, set, delete and exists is one *)
(* step (the lock of memory.py, one Redis command); update_trust and       *)
(* increment_tokens of BaseSessionStore are several.                       *)
(***************************************************************************)
UserIds == {"u1"}

Backends == {"memory", "redis"}

\* the ttl arguments of set, and the default_ttl arguments of the constructor
TtlArgs == {NoTtl, 0, 1, 2}

DefaultTtls == {NoTtl, 2}

\* the arguments of increment_tokens and of update_trust
TokenCounts == {1}

TrustScores == {75}

Remove(d, k) == [x \in (DOMAIN d) \ {k} |-> d[x]]

\* base.py lines 19-24: a SessionData made at time t with the defaults
NewData(t) == [tokens_used |-> 0, trust_score |-> 100, last_seen |-> t]

\* `if effective_ttl:` is false for None and for 0
Truthy(x) == x # NoTtl /\ x # 0

\* memory.py line 79, redis.py line 107
EffectiveTtl(ttl, default) == IF ttl # NoTtl THEN ttl ELSE default

\* memory.py lines 79-82, redis.py lines 107-113: the expiry an entry gets
\* from set(user_id, data, ttl) at time t
ExpiryOfSet(ttl, default, t) ==
    LET eff == EffectiveTtl(ttl, default)
    IN  IF Truthy(eff) THEN t + eff ELSE NoTtl

\* memory.py lines 46-50 (_is_expired: now > expiry); a Redis key is gone
\* from the moment its time to live has run out
IsExpired(backend, expiry, t) ==
    /\ expiry # NoTtl
    /\ IF backend = "memory" THEN t > expiry ELSE t >= expiry

\* whether get(u) returns data and exists(u) returns True
Present(u) ==
    /\ u \in DOMAIN store
    /\ ~IsExpired(cfg.backend, store[u].expiry, now)

\* memory.py lines 68-72 and 101-104: get and exists delete an entry they
\* find expired
AfterAccess(st, u) ==
    IF u \in DOMAIN st /\ IsExpired(cfg.backend, st[u].expiry, now)
    THEN Remove(st, u) ELSE st

IdleThread ==
    [pc |-> "idle", op |-> "", uid |-> "", ref |-> 0, tmp |-> 0, arg |-> 0]

InFlight(th, u) == \E t \in DOMAIN th : th[t].pc # "idle" /\ th[t].uid = u

\* an object id that is not in use
FreshOid(h) ==
    CHOOSE k \in 1..(Cardinality(DOMAIN h) + 1) :
        k \notin DOMAIN h /\ \A j \in 1..(k - 1) : j \in DOMAIN h

\* the objects still referenced by the store or by a call in progress
Collect(h, st, th) ==
    LET live == {st[u].obj : u \in DOMAIN st} \cup
                {th[t].ref : t \in DOMAIN th}
    IN  [k \in (DOMAIN h) \cap live |-> h[k]]

\* redis.py lines 157-162 and 198-203: the script reads the key's TTL and
\* writes with SETEX if it is positive, with SET otherwise
ScriptExpiry(expiry, t) ==
    LET ttl == IF expiry = NoTtl THEN -1 ELSE expiry - t
    IN  IF ttl > 0 THEN t + ttl ELSE NoTtl

\* redis.py lines 164 and 176 (`return 1`, `result == 1`), lines 205 and 216
\* (`return session.tokens_used`, `result > 0`): what the call returns for a
\* key the script has written
ScriptResult(d, op) ==
    IF op = "increment_tokens" THEN d.tokens_used > 0 ELSE TRUE

\* what the call does to the object: base.py lines 134-135 and 148-149
Mutated(d, op, arg, t) ==
    IF op = "increment_tokens"
    THEN [d EXCEPT !.tokens_used = d.tokens_used + arg, !.last_seen = t]
    ELSE [d EXCEPT !.trust_score = arg, !.last_seen = t]

\* the sum the successful increment_tokens calls add up to
Credit(cr, u, op, arg) ==
    IF op = "increment_tokens" /\ u \in DOMAIN cr
    THEN [cr EXCEPT ![u] = cr[u] + arg] ELSE cr

\* whether the backend holds no entry under u: no item in the dict of
\* memory.py, no key in Redis (which drops a key when its time has run out)
Absent(u) ==
    IF cfg.backend = "memory" THEN u \notin DOMAIN store ELSE ~Present(u)

\* a bool as the call returns it
Bool(b) == IF b THEN "True" ELSE "False"

\* the record of a call that has returned: `absent` tells whether the backend
\* held no entry under u when the call was made, `n` which call it was
Returned(op, u, ret) ==
    [op |-> op, uid |-> u, ret |-> ret, absent |-> Absent(u), n |-> ops + 1]

InitStore ==
    /\ InitCall({<< >>}, {1}, {0})
    /\ NoBatch
    /\ cfg \in [backend : Backends, default_ttl : DefaultTtls]
    /\ now = 0
    /\ store = EmptyDict
    /\ heap = EmptyDict
    /\ threads = [t \in 1..MaxThreads |-> IdleThread]
    /\ ops = 0
    /\ sets = EmptyDict
    /\ dead = {}
    /\ credited = EmptyDict
    /\ last = NoCall
    /\ NoExt

\* a thread that is not inside a call makes a call, within the bound; the
\* threads are alike, so the first of the free ones stands for any of them
CanCall(t) ==
    /\ threads[t].pc = "idle"
    /\ \A j \in 1..(t - 1) : threads[j].pc # "idle"
    /\ ops < MaxOps

\* memory.py lines 62-74, redis.py lines 93-102
StoreGet(t, u) ==
    /\ CanCall(t)
    /\ store' = AfterAccess(store, u)
    /\ heap' = Collect(heap, store', threads)
    /\ ops' = ops + 1
    /\ last' = Returned("get", u, IF Present(u) THEN "data" ELSE "None")
    /\ UNCHANGED <<cfg, now, threads, sets, dead, credited>>
    /\ UNCHANGED <<callVars, batchVars, extVars>>

\* memory.py lines 95-106, redis.py lines 129-135
StoreExists(t, u) ==
    /\ CanCall(t)
    /\ store' = AfterAccess(store, u)
    /\ heap' = Collect(heap, store', threads)
    /\ ops' = ops + 1
    /\ last' = Returned("exists", u, Bool(Present(u)))
    /\ UNCHANGED <<cfg, now, threads, sets, dead, credited>>
    /\ UNCHANGED <<callVars, batchVars, extVars>>

\* memory.py lines 76-85, redis.py lines 104-118: set(u, data, ttl) with a
\* SessionData the caller has just made
StoreSet(t, u, ttl) ==
    /\ CanCall(t)
    /\ LET oid == FreshOid(heap)
           expiry == ExpiryOfSet(ttl, cfg.default_ttl, now)
       IN  /\ store' = Put(store, u, [obj |-> oid, expiry |-> expiry])
           /\ heap' = Collect(Put(heap, oid, NewData(now)), store', threads)
           /\ sets' = Put(sets, u, [ttl |-> ttl, at |-> now, expiry |-> expiry])
    /\ dead' = dead \ {u}
    /\ credited' = IF InFlight(threads, u) THEN Remove(credited, u)
                   ELSE Put(credited, u, NewData(now).tokens_used)
    /\ ops' = ops + 1
    /\ last' = Returned("set", u, Bool(TRUE))
    /\ UNCHANGED <<cfg, now, threads>>
    /\ UNCHANGED <<callVars, batchVars, extVars>>

StoreDeleteAlwaysTrue(t, u) ==
    /\ CanCall(t)
    /\ store' = Remove(store, u)
    /\ heap' = Collect(heap, store', threads)
    /\ sets' = Remove(sets, u)
    /\ dead' = dead \ {u}
    /\ credited' = Remove(credited, u)
    /\ ops' = ops + 1
    /\ last' = Returned("delete", u, Bool(TRUE))
    /\ UNCHANGED <<cfg, now, threads>>
    /\ UNCHANGED <<callVars, batchVars, extVars>>

\* memory.py lines 87-93, redis.py lines 120-127
StoreDelete(t, u) ==
    /\ CanCall(t)
    /\ store' = Remove(store, u)
    /\ heap' = Collect(heap, store', threads)
    /\ sets' = Remove(sets, u)
    /\ dead' = dead \ {u}
    /\ credited' = Remove(credited, u)
    /\ ops' = ops + 1
    /\ last' = Returned("delete", u, Bool(~Absent(u)))
    /\ UNCHANGED <<cfg, now, threads>>
    /\ UNCHANGED <<callVars, batchVars, extVars>>

\* base.py lines 131-133 and 145-147: update_trust and increment_tokens of
\* BaseSessionStore begin with self.get(user_id) and return False when it
\* yields None.  InMemorySessionStore inherits them; RedisSessionStore falls
\* back to them when its script call raises (redis.py lines 177-180 and
\* 217-220).
UpdateBegin(t, u, op, arg) ==
    /\ CanCall(t)
    /\ ops' = ops + 1
    /\ IF ~Present(u)
       THEN /\ store' = AfterAccess(store, u)
            /\ heap' = Collect(heap, store', threads)
            /\ last' = Returned(op, u, Bool(FALSE))
            /\ UNCHANGED threads
       ELSE LET copy == FreshOid(heap)
                ref == IF cfg.backend = "memory" THEN store[u].obj ELSE copy
            IN  /\ heap' = IF cfg.backend = "memory" THEN heap
                           ELSE Put(heap, copy, heap[store[u].obj])
                /\ threads' = [threads EXCEPT ![t] =
                       [pc |-> IF op = "increment_tokens" THEN "load"
                               ELSE "store",
                        op |-> op, uid |-> u, ref |-> ref, tmp |-> arg,
                        arg |-> arg]]
                /\ UNCHANGED <<store, last>>
    /\ UNCHANGED <<cfg, now, sets, dead, credited>>
    /\ UNCHANGED <<callVars, batchVars, extVars>>

\* base.py line 148, `data.tokens_used += count`: the attribute is read ...
UpdateLoad(t) ==
    /\ threads[t].pc = "load"
    /\ threads' = [threads EXCEPT
           ![t].tmp = heap[threads[t].ref].tokens_used + threads[t].arg,
           ![t].pc = "store"]
    /\ UNCHANGED <<cfg, now, store, heap, ops, sets, dead, credited, last>>
    /\ UNCHANGED <<callVars, batchVars, extVars>>

\* ... and written (line 148), or trust_score is assigned (line 134)
UpdateStore(t) ==
    /\ threads[t].pc = "store"
    /\ heap' = IF threads[t].op = "increment_tokens"
               THEN [heap EXCEPT ![threads[t].ref].tokens_used = threads[t].tmp]
               ELSE [heap EXCEPT ![threads[t].ref].trust_score = threads[t].tmp]
    /\ threads' = [threads EXCEPT ![t].pc = "seen"]
    /\ UNCHANGED <<cfg, now, store, ops, sets, dead, credited, last>>
    /\ UNCHANGED <<callVars, batchVars, extVars>>

\* base.py lines 135 and 149: data.last_seen = now
UpdateSeen(t) ==
    /\ threads[t].pc = "seen"
    /\ heap' = [heap EXCEPT ![threads[t].ref].last_seen = now]
    /\ threads' = [threads EXCEPT ![t].pc = "set"]
    /\ UNCHANGED <<cfg, now, store, ops, sets, dead, credited, last>>
    /\ UNCHANGED <<callVars, batchVars, extVars>>

\* base.py lines 136 and 150: return self.set(user_id, data), without a ttl
UpdateSet(t) ==
    /\ threads[t].pc = "set"
    /\ LET u == threads[t].uid
           expiry == ExpiryOfSet(NoTtl, cfg.default_ttl, now)
       IN  /\ store' = Put(store, u, [obj |-> threads[t].ref,
                                      expiry |-> expiry])
           /\ credited' = Credit(credited, u, threads[t].op, threads[t].arg)
    /\ threads' = [threads EXCEPT ![t] = IdleThread]
    /\ heap' = Collect(heap, store', threads')
    /\ last' = [op |-> threads[t].op, uid |-> threads[t].uid,
                ret |-> Bool(TRUE), absent |-> FALSE, n |-> 0]
    /\ UNCHANGED <<cfg, now, ops, sets, dead>>
    /\ UNCHANGED <<callVars, batchVars, extVars>>

\* redis.py lines 137-176 and 182-216: the Lua script reads the key, changes
\* the field and last_seen and writes the key back, all inside Redis
RedisScript(t, u, op, arg) ==
    /\ cfg.backend = "redis"
    /\ CanCall(t)
    /\ ops' = ops + 1
    /\ IF ~Present(u)
       THEN /\ store' = AfterAccess(store, u)
            /\ heap' = Collect(heap, store', threads)
            /\ last' = Returned(op, u, Bool(FALSE))
            /\ UNCHANGED credited
       ELSE /\ heap' = [heap EXCEPT ![store[u].obj] = Mutated(@, op, arg, now)]
            /\ store' = [store EXCEPT ![u].expiry = ScriptExpiry(@, now)]
            /\ credited' = Credit(credited, u, op, arg)
            /\ last' = Returned(op, u, Bool(ScriptResult(heap'[store[u].obj], op)))
    /\ UNCHANGED <<cfg, now, threads, sets, dead>>
    /\ UNCHANGED <<callVars, batchVars, extVars>>

\* time passes; the history notes the entries whose expiry time has passed
Tick ==
    /\ now < MaxTime
    /\ now' = now + 1
    /\ dead' = dead \cup {u \in DOMAIN store :
                             IsExpired(cfg.backend, store[u].expiry, now + 1)}
    /\ UNCHANGED <<cfg, store, heap, threads, ops, sets, credited, last>>
    /\ UNCHANGED <<callVars, batchVars, extVars>>

NextStore ==
    \/ \E t \in DOMAIN threads, u \in UserIds : StoreGet(t, u)
    \/ \E t \in DOMAIN threads, u \in UserIds : StoreExists(t, u)
    \/ \E t \in DOMAIN threads, u \in UserIds, ttl \in TtlArgs :
          StoreSet(t, u, ttl)
    \/ \E t \in DOMAIN threads, u \in UserIds : StoreDelete(t, u)
    \/ \E t \in DOMAIN threads, u \in UserIds, n \in TokenCounts :
          UpdateBegin(t, u, "increment_tokens", n)
    \/ \E t \in DOMAIN threads, u \in UserIds, s \in TrustScores :
          UpdateBegin(t, u, "update_trust", s)
    \/ \E t \in DOMAIN threads : UpdateLoad(t)
    \/ \E t \in DOMAIN threads : UpdateStore(t)
    \/ \E t \in DOMAIN threads : UpdateSeen(t)
    \/ \E t \in DOMAIN threads : UpdateSet(t)
    \/ \E t \in DOMAIN threads, u \in UserIds, n \in TokenCounts :
          RedisScript(t, u, "increment_tokens", n)
    \/ \E t \in DOMAIN threads, u \in UserIds, s \in TrustScores :
          RedisScript(t, u, "update_trust", s)
    \/ Tick

SpecStore == InitStore /\ [][NextStore]_vars

\* C16: with InMemorySessionStore, once the increment_tokens and update_trust
\* calls on an existing session have all returned, its tokens_used is the
\* value it was stored with plus the counts of the increment_tokens calls
\* that returned True.
C16_NoLostUpdate ==
    cfg.backend = "memory" =>
        \A u \in (DOMAIN credited) \cap (DOMAIN store) :
            ~InFlight(threads, u) =>
                heap[store[u].obj].tokens_used = credited[u]

\* C17: with RedisSessionStore no update_trust or increment_tokens call ever
\* stands between a read of the key and a separate write of it.
C17_OneBackendStep ==
    cfg.backend = "redis" =>
        \A t \in DOMAIN threads : threads[t].pc = "idle"

\* C18: as long as a key is stored, its expiry is the one its last set call
\* gave it: update_trust and increment_tokens do not change it.
C18_ExpiryKept ==
    \A u \in (DOMAIN store) \cap (DOMAIN sets) :
        store[u].expiry = sets[u].expiry

\* C19: an entry whose expiry time has passed is absent for get and exists
\* until a new set for its user_id.
C19_ExpiredStaysAbsent ==
    \A u \in dead : ~Present(u)

\* C20: the expiry an entry has after set(user_id, data, ttl) is None when
\* ttl is None and the time of the call plus ttl otherwise.
C20_ExpiryFromTtl ==
    \A u \in DOMAIN sets :
        sets[u].expiry = IF sets[u].ttl = NoTtl THEN NoTtl
                         ELSE sets[u].at + sets[u].ttl

(***************************************************************************)
(* Calls on a user_id the store does not hold, with a second user_id in    *)
(* the store.                                                              *)
(***************************************************************************)
TwoUserIds == {"u1", "u2"}

\* one caller: each of the calls in question is a single step of its thread
InitAbsent ==
    /\ InitCall({<< >>}, {1}, {0})
    /\ NoBatch
    /\ cfg \in [backend : Backends, default_ttl : DefaultTtls]
    /\ now = 0
    /\ store = EmptyDict
    /\ heap = EmptyDict
    /\ threads = [t \in 1..1 |-> IdleThread]
    /\ ops = 0
    /\ sets = EmptyDict
    /\ dead = {}
    /\ credited = EmptyDict
    /\ last = NoCall
    /\ NoExt

NextAbsent ==
    \/ \E t \in DOMAIN threads, u \in TwoUserIds : StoreGet(t, u)
    \/ \E t \in DOMAIN threads, u \in TwoUserIds : StoreExists(t, u)
    \/ \E t \in DOMAIN threads, u \in TwoUserIds, ttl \in TtlArgs :
          StoreSet(t, u, ttl)
    \/ \E t \in DOMAIN threads, u \in TwoUserIds : StoreDelete(t, u)
    \/ \E t \in DOMAIN threads, u \in TwoUserIds, n \in TokenCounts :
          UpdateBegin(t, u, "increment_tokens", n)
    \/ \E t \in DOMAIN threads, u \in TwoUserIds, s \in TrustScores :
          UpdateBegin(t, u, "update_trust", s)
    \/ \E t \in DOMAIN threads : UpdateLoad(t)
    \/ \E t \in DOMAIN threads : UpdateStore(t)
    \/ \E t \in DOMAIN threads : UpdateSeen(t)
    \/ \E t \in DOMAIN threads : UpdateSet(t)
    \/ \E t \in DOMAIN threads, u \in TwoUserIds, n \in TokenCounts :
          RedisScript(t, u, "increment_tokens", n)
    \/ \E t \in DOMAIN threads, u \in TwoUserIds, s \in TrustScores :
          RedisScript(t, u, "update_trust", s)
    \/ Tick

SpecAbsent == InitAbsent /\ [][NextAbsent]_vars

FieldSeq ==
    <<"user_id", "fingerprint", "trust_score", "last_seen", "tokens_used",
      "session_start", "history_summary", "metadata">>

FieldNames == {FieldSeq[i] : i \in DOMAIN FieldSeq}

\* the fields of the dataclass that have no default (lines 19-20)
RequiredFields == {"user_id", "fingerprint"}

\* members a record written by another version of the library may carry
ExtraFields == {"schema_version"}

\* lines 21-27: the defaults of the dataclass (utcnow() read as the clock's 0)
FieldDefault(f) ==
    CASE f = "trust_score" -> 100
      [] f = "last_seen" -> 0
      [] f = "tokens_used" -> 0
      [] f = "session_start" -> 0
      [] f = "history_summary" -> ""
      [] f = "metadata" -> EmptyDict
      [] OTHER -> ""

SessionDatas ==
    [user_id : UserIds, fingerprint : {"fp"}, trust_score : {0, 100},
     last_seen : 0..MaxTime, tokens_used : 0..MaxTokens, session_start : {0},
     history_summary : {"", "h"},
     metadata : {EmptyDict, Put(EmptyDict, "tag", "x")}]

\* line 32, asdict(self): a dict with one item per field
ToDict(d) == [f \in FieldNames |-> d[f]]

\* line 36, json.dumps: the dict's items as members, in the dict's order
JsonDumps(dict) == [i \in DOMAIN FieldSeq |-> <<FieldSeq[i], dict[FieldSeq[i]]>>]

\* line 46, json.loads: a dict with one item per member name (the last member
\* of a name wins)
JsonLoads(w) ==
    [k \in {w[i][1] : i \in DOMAIN w} |->
        LET j == CHOOSE i \in DOMAIN w :
                    /\ w[i][1] = k
                    /\ \A h \in DOMAIN w : w[h][1] = k => h <= i
        IN  w[j][2]]

\* line 41, cls(**data): the generated __init__ raises TypeError for a keyword
\* that is no field and for a missing field without a default
FromDict(data) ==
    IF (DOMAIN data) \subseteq FieldNames /\ RequiredFields \subseteq DOMAIN data
    THEN [raised |-> FALSE,
          data |-> [f \in FieldNames |->
                       IF f \in DOMAIN data THEN data[f] ELSE FieldDefault(f)]]
    ELSE [raised |-> TRUE, data |-> EmptyDict]

InitData ==
    /\ InitCall({<< >>}, {1}, {0})
    /\ NoBatch
    /\ NoStore
    /\ sd \in SessionDatas
    /\ wire = << >>
    /\ restored = [raised |-> FALSE, data |-> EmptyDict]
    /\ sdpc = "made"
    /\ NoReg
    /\ NoLife
    /\ NoRedis
    /\ NoMore

\* lines 34-36: to_json
ToJson ==
    /\ sdpc = "made"
    /\ wire' = JsonDumps(ToDict(sd))
    /\ sdpc' = "written"
    /\ UNCHANGED <<sd, restored>>
    /\ UNCHANGED <<callVars, batchVars, storeVars, redisVars, moreVars, regVars, lifeVars>>

\* the record comes back from the backend with a member this version of
\* SessionData does not know
ForeignMember(x) ==
    /\ sdpc = "written"
    /\ \A i \in DOMAIN wire : wire[i][1] # x
    /\ wire' = Append(wire, <<x, 2>>)
    /\ UNCHANGED <<sd, restored, sdpc>>
    /\ UNCHANGED <<callVars, batchVars, storeVars, redisVars, moreVars, regVars, lifeVars>>

\* lines 43-46: from_json
FromJson ==
    /\ sdpc = "written"
    /\ restored' = FromDict(JsonLoads(wire))
    /\ sdpc' = "read"
    /\ UNCHANGED <<sd, wire>>
    /\ UNCHANGED <<callVars, batchVars, storeVars, redisVars, moreVars, regVars, lifeVars>>

\* from_dict(d.to_dict()), without the JSON text
FromToDict ==
    /\ sdpc = "made"
    /\ restored' = FromDict(ToDict(sd))
    /\ sdpc' = "read"
    /\ UNCHANGED <<sd, wire>>
    /\ UNCHANGED <<callVars, batchVars, storeVars, redisVars, moreVars, regVars, lifeVars>>

NextData ==
    \/ ToJson
    \/ \E x \in ExtraFields : ForeignMember(x)
    \/ FromJson
    \/ FromToDict

SpecData == InitData /\ [][NextData]_vars

\* C22: whatever from_json or from_dict has read, from the record to_json or
\* to_dict wrote and also when that record carries an unrecognized extra
\* member, it did not raise and the SessionData it gave equals the original
\* in every field.
C22_RoundTrip ==
    sdpc = "read" => ~restored.raised /\ restored.data = sd

(***************************************************************************)
(* plugins/base.py lines 140-257: the registry's own operations, on the    *)
(* process-wide dict and on the local dicts of two PlaneRegistry objects   *)
(* (`registry` is the first one's, `registry2` the second one's).          *)
(***************************************************************************)
MaxRegCalls == 3

RegNames == {"p1", "p2"}

\* the classes handed to register and register_global: two names, and under
\* each name classes that differ in phase or in priority
RegClasses ==
    { [name |-> n, phase |-> pp[1], enabled |-> TRUE, priority |-> pp[2],
       fail_action |-> "block", reports |-> n] :
      n \in RegNames,
      pp \in {<<PRE_IDENTITY, 5>>, <<PRE_IDENTITY, 50>>, <<POST_COMPLIANCE, 5>>} }

\* the scopes: 0 is the process-wide dict, 1 and 2 are the local dicts
LocalOf(r) == IF r = 1 THEN registry ELSE registry2

\* d[name] = cls on a Python dict: a key that is there keeps its place
DictSet(reg, cls) ==
    IF cls.name \in NamesOf(reg)
    THEN [i \in DOMAIN reg |-> IF reg[i].name = cls.name THEN cls ELSE reg[i]]
    ELSE Append(reg, cls)

\* del d[name]
DictDel(reg, n) ==
    LET Other(c) == c.name # n
    IN  SelectSeq(reg, Other)

NoClass == [name |-> ""]

\* get (line 206): the local class, or else the global one, or else None
Get(glob, loc, n) ==
    IF n \in NamesOf(loc) THEN Lookup(loc, n)
    ELSE IF n \in NamesOf(glob) THEN Lookup(glob, n)
    ELSE NoClass

NoRegCall ==
    [n |-> 0, op |-> "", r |-> 0, cls |-> NoClass, override |-> FALSE,
     raised |-> FALSE]

InitRegistry ==
    /\ InitCall({<< >>}, {1}, {0})
    /\ NoBatch
    /\ NoStore
    /\ NoData
    /\ registry2 = << >>
    /\ reg_call = NoRegCall
    /\ regtime = EmptyDict
    /\ NoLife
    /\ NoRedis
    /\ NoMore

\* (register without the test for a name that is already there)
RegisterNoCheck(r, cls, override) ==
    /\ reg_call.n < MaxRegCalls
    /\ reg_call' = [n |-> reg_call.n + 1, op |-> "register", r |-> r,
                    cls |-> cls, override |-> override, raised |-> FALSE]
    /\ IF r = 1
       THEN registry' = DictSet(registry, cls) /\ UNCHANGED registry2
       ELSE registry2' = DictSet(registry2, cls) /\ UNCHANGED registry
    /\ regtime' = Put(regtime, <<r, cls.name>>, reg_call.n + 1)
    /\ UNCHANGED <<global_registry, instances, session, prompt, pc, stage,
                   plane_results, tasks, results, decision, audit, returned,
                   started, finished, econ_seen, verdicts, session0,
                   audit_fault, effects>>
    /\ UNCHANGED <<batchVars, storeVars, redisVars, moreVars, dataVars, lifeVars>>

\* register (lines 162-191) on registry object r
Register(r, cls, override) ==
    /\ reg_call.n < MaxRegCalls
    /\ LET dup == cls.name \in NamesOf(LocalOf(r)) /\ ~override
       IN  /\ reg_call' = [n |-> reg_call.n + 1, op |-> "register", r |-> r,
                           cls |-> cls, override |-> override, raised |-> dup]
           /\ IF dup
              THEN UNCHANGED <<registry, registry2, regtime>>
              ELSE /\ IF r = 1
                      THEN /\ registry' = DictSet(registry, cls)
                           /\ UNCHANGED registry2
                      ELSE /\ registry2' = DictSet(registry2, cls)
                           /\ UNCHANGED registry
                   /\ regtime' = Put(regtime, <<r, cls.name>>, reg_call.n + 1)
    /\ UNCHANGED <<global_registry, instances, session, prompt, pc, stage,
                   plane_results, tasks, results, decision, audit, returned,
                   started, finished, econ_seen, verdicts, session0,
                   audit_fault, effects>>
    /\ UNCHANGED <<batchVars, storeVars, redisVars, moreVars, dataVars, lifeVars>>

\* register_global (lines 252-257)
RegisterGlobal(cls) ==
    /\ reg_call.n < MaxRegCalls
    /\ reg_call' = [n |-> reg_call.n + 1, op |-> "register_global", r |-> 0,
                    cls |-> cls, override |-> FALSE, raised |-> FALSE]
    /\ global_registry' = DictSet(global_registry, cls)
    /\ regtime' = Put(regtime, <<0, cls.name>>, reg_call.n + 1)
    /\ UNCHANGED <<registry, registry2>>
    /\ UNCHANGED <<instances, session, prompt, pc, stage,
                   plane_results, tasks, results, decision, audit, returned,
                   started, finished, econ_seen, verdicts, session0,
                   audit_fault, effects>>
    /\ UNCHANGED <<batchVars, storeVars, redisVars, moreVars, dataVars, lifeVars>>

\* unregister (lines 193-202) on registry object r
Unregister(r, n) ==
    /\ reg_call.n < MaxRegCalls
    /\ reg_call' = [n |-> reg_call.n + 1, op |-> "unregister", r |-> r,
                    cls |-> Get(<< >>, LocalOf(r), n), override |-> FALSE,
                    raised |-> FALSE]
    /\ IF r = 1
       THEN registry' = DictDel(registry, n) /\ UNCHANGED registry2
       ELSE registry2' = DictDel(registry2, n) /\ UNCHANGED registry
    /\ regtime' = Remove(regtime, <<r, n>>)
    /\ UNCHANGED <<global_registry, instances, session, prompt, pc, stage,
                   plane_results, tasks, results, decision, audit, returned,
                   started, finished, econ_seen, verdicts, session0,
                   audit_fault, effects>>
    /\ UNCHANGED <<batchVars, storeVars, redisVars, moreVars, dataVars, lifeVars>>

NextRegistry ==
    \/ \E r \in {1, 2}, cls \in RegClasses, o \in BOOLEAN : Register(r, cls, o)
    \/ \E cls \in RegClasses : RegisterGlobal(cls)
    \/ \E r \in {1, 2}, n \in RegNames : Unregister(r, n)

SpecRegistry == InitRegistry /\ [][NextRegistry]_vars

\* the classes of the given name that get_by_phase returns, over all phases
ByPhaseUnder(glob, loc, n) ==
    {<<ph, c>> \in PlanePhase \X RegClasses :
        \E i \in DOMAIN GetByPhase(glob, loc, ph) :
            GetByPhase(glob, loc, ph)[i] = c /\ c.name = n}

\* C23: register(cls) with a name the registry already holds and
\* override=False raises and leaves the registry as it was; with
\* override=True it succeeds, and from then on get(name) and get_by_phase
\* return the new class and no other class of that name.
C23_DuplicateOrOverride ==
    [][(reg_call'.n # reg_call.n /\ reg_call'.op = "register" /\
        reg_call'.cls.name \in NamesOf(LocalOf(reg_call'.r))) =>
          LET r == reg_call'.r
              cls == reg_call'.cls
              loc == IF r = 1 THEN registry' ELSE registry2'
          IN  IF ~reg_call'.override
              THEN /\ reg_call'.raised
                   /\ registry' = registry
                   /\ registry2' = registry2
                   /\ global_registry' = global_registry
                   /\ Get(global_registry', loc, cls.name) =
                          Get(global_registry, LocalOf(r), cls.name)
              ELSE /\ ~reg_call'.raised
                   /\ Get(global_registry', loc, cls.name) = cls
                   /\ ByPhaseUnder(global_registry', loc, cls.name) =
                          {<<cls.phase, cls>>}]_vars

C23_Witness ==
    /\ reg_call.op = "register"
    /\ reg_call.override
    /\ reg_call.r = 1
    /\ Get(global_registry, registry, reg_call.cls.name) = reg_call.cls
    /\ \E t \in DOMAIN regtime : t = <<1, reg_call.cls.name>> /\ regtime[t] = 3
    /\ Len(registry) = 2

\* the classes visible through a registry object: per name the local class,
\* or else the global one
VisibleIn(glob, loc) ==
    {Get(glob, loc, n) : n \in NamesOf(glob) \cup NamesOf(loc)}

\* the call that registered the class visible under name n in registry r
TimeOf(r, n) ==
    IF n \in NamesOf(LocalOf(r)) THEN regtime[<<r, n>>] ELSE regtime[<<0, n>>]

\* C24: whatever register, register_global and unregister calls were made,
\* get_by_phase(phase) lists exactly the visible classes of that phase, each
\* once, by ascending priority, and classes of equal priority in the order in
\* which they were registered.
C24_ByPhaseOrder ==
    \A r \in {1, 2}, ph \in PlanePhase :
        LET s == GetByPhase(global_registry, LocalOf(r), ph)
        IN  /\ {s[i] : i \in DOMAIN s} =
                   {c \in VisibleIn(global_registry, LocalOf(r)) : c.phase = ph}
            /\ \A i, j \in DOMAIN s : i < j =>
                   /\ s[i].name # s[j].name
                   /\ \/ s[i].priority < s[j].priority
                      \/ /\ s[i].priority = s[j].priority
                         /\ TimeOf(r, s[i].name) < TimeOf(r, s[j].name)

\* C25: a name registered both globally and locally shows its local class in
\* get, get_all and get_by_phase, once and under the local class's phase
\* only; a name registered globally only shows its global class through
\* every registry object.
C25_LocalShadowsGlobal ==
    \A r \in {1, 2}, n \in NamesOf(global_registry) :
        LET loc == LocalOf(r)
            all == GetAll(global_registry, loc)
            c == IF n \in NamesOf(loc) THEN Lookup(loc, n)
                 ELSE Lookup(global_registry, n)
        IN  /\ Get(global_registry, loc, n) = c
            /\ Cardinality({i \in DOMAIN all : all[i].name = n}) = 1
            /\ Lookup(all, n) = c
            /\ ByPhaseUnder(global_registry, loc, n) = {<<c.phase, c>>}
            /\ \A ph \in PlanePhase :
                   LET s == GetByPhase(global_registry, loc, ph)
                   IN  Cardinality({i \in DOMAIN s : s[i].name = n}) =
                           IF ph = c.phase THEN 1 ELSE 0

C25_Witness ==
    /\ "p1" \in NamesOf(global_registry)
    /\ "p1" \in NamesOf(registry)
    /\ "p1" \notin NamesOf(registry2)
    /\ Lookup(global_registry, "p1").phase # Lookup(registry, "p1").phase
    /\ Get(global_registry, registry2, "p1") = Lookup(global_registry, "p1")

(***************************************************************************)
(* async_guard/guard.py lines 123-145 and 360-374: one guard over several  *)
(* inspect calls, with register_plugin, enable and disable between the     *)
(* calls.                                                                  *)
(***************************************************************************)
MaxCalls == 2

\* the guard's registry at the start: empty, or one class under the name p1
GuardRegistries ==
    Registries(0, {TRUE}, {"block"}) \cup Registries(1, BOOLEAN, {"block"})

\* the classes handed to register_plugin and to register_global
GuardClasses ==
    {PluginClass(1, ph, TRUE, "block") : ph \in {PRE_IDENTITY, POST_COMPLIANCE}}

InitGuard == InitWith(GuardRegistries, {1}, {0})

\* the call has ended and the caller makes the next one on the same guard and
\* session
NewCall ==
    /\ pc \in {"returned", "raised"}
    /\ calls < MaxCalls
    /\ calls' = calls + 1
    /\ skipped' = skipped \cup
           {n \in DOMAIN instances :
               ~instances[n].enabled /\ \A e \in started : e[1] # n}
    /\ pc' = "idle"
    /\ stage' = 0
    /\ plane_results' = EmptyDict
    /\ tasks' = << >>
    /\ results' = << >>
    /\ decision' = NoDecision
    /\ returned' = NoDecision
    /\ started' = {}
    /\ finished' = {}
    /\ econ_seen' = -1
    /\ verdicts' = EmptyDict
    /\ session0' = session
    /\ audit_fault' = FALSE
    /\ effects' = << >>
    /\ UNCHANGED <<global_registry, registry, instances, session, prompt, audit>>
    /\ outcomes' = EmptyDict
    /\ UNCHANGED <<batchVars, storeVars, redisVars, moreVars, dataVars, regVars,
                   made, peer>>

\* register_plugin, lines 123-133, between two calls: register raises for a
\* name the local registry holds; otherwise a new instance is made and stored
\* under the name
RegisterPlugin(cls) ==
    /\ pc = "idle"
    /\ reg_call.n < MaxRegCalls
    /\ LET dup == cls.name \in NamesOf(registry)
       IN  /\ reg_call' = [n |-> reg_call.n + 1, op |-> "register_plugin",
                           r |-> 1, cls |-> cls, override |-> FALSE,
                           raised |-> dup]
           /\ IF dup
              THEN UNCHANGED <<registry, regtime, instances, made>>
              ELSE /\ registry' = DictSet(registry, cls)
                   /\ regtime' = Put(regtime, <<1, cls.name>>, reg_call.n + 1)
                   /\ instances' = Put(instances, cls.name, NewInstance(cls))
                   /\ made' = Count(made, {cls.name})
    /\ UNCHANGED <<global_registry, session, prompt, pc, stage,
                   plane_results, tasks, results, decision, audit, returned,
                   started, finished, econ_seen, verdicts, session0,
                   audit_fault, effects>>
    /\ UNCHANGED <<batchVars, storeVars, redisVars, moreVars, dataVars, registry2, calls, skipped, outcomes,
                   peer>>

\* plugins/base.py lines 136-138: disable() on the guard's instance, between
\* two calls
Disable(n) ==
    /\ pc = "idle"
    /\ n \in DOMAIN instances
    /\ instances[n].enabled
    /\ instances' = [instances EXCEPT ![n].enabled = FALSE]
    /\ UNCHANGED <<global_registry, registry, session, prompt, pc, stage,
                   plane_results, tasks, results, decision, audit, returned,
                   started, finished, econ_seen, verdicts, session0,
                   audit_fault, effects>>
    /\ UNCHANGED <<batchVars, storeVars, extVars>>

\* plugins/base.py lines 132-134: enable()
Enable(n) ==
    /\ pc = "idle"
    /\ n \in DOMAIN instances
    /\ ~instances[n].enabled
    /\ instances' = [instances EXCEPT ![n].enabled = TRUE]
    /\ UNCHANGED <<global_registry, registry, session, prompt, pc, stage,
                   plane_results, tasks, results, decision, audit, returned,
                   started, finished, econ_seen, verdicts, session0,
                   audit_fault, effects>>
    /\ UNCHANGED <<batchVars, storeVars, extVars>>

NextGuard ==
    \/ Next
    \/ NewCall
    \/ \E cls \in GuardClasses : RegisterPlugin(cls)
    \/ \E n \in DOMAIN instances : Disable(n)
    \/ \E n \in DOMAIN instances : Enable(n)

SpecGuard == InitGuard /\ [][NextGuard]_vars

\* inspect_sync called while a loop is running (lines 367-372) runs inspect in
\* a thread of its own, next to the calls of the loop.  That call's
\* _get_plugins_for_phase finds no instance under the name (line 140) ...
PeerCheck(ph, i) ==
    /\ peer.pc = "idle"
    /\ i \in DOMAIN GetByPhase(global_registry, registry, ph)
    /\ LET cls == GetByPhase(global_registry, registry, ph)[i]
       IN  /\ cls.name \notin DOMAIN instances
           /\ peer' = [pc |-> "create", cls |-> cls]
    /\ UNCHANGED <<callVars, batchVars, storeVars, redisVars, moreVars, dataVars, regVars, made,
                   calls, skipped, outcomes>>

\* ... and makes one and stores it (line 141)
PeerCreate ==
    /\ peer.pc = "create"
    /\ instances' = Put(instances, peer.cls.name, NewInstance(peer.cls))
    /\ made' = Count(made, {peer.cls.name})
    /\ peer' = [pc |-> "idle", cls |-> [name |-> ""]]
    /\ UNCHANGED <<global_registry, registry, session, prompt, pc, stage,
                   plane_results, tasks, results, decision, audit, returned,
                   started, finished, econ_seen, verdicts, session0,
                   audit_fault, effects>>
    /\ UNCHANGED <<batchVars, storeVars, redisVars, moreVars, dataVars, regVars,
                   calls, skipped, outcomes>>

\* the guard's registry at the start: empty, or one enabled class
InitLazy ==
    InitWith(Registries(0, {TRUE}, {"block"}) \cup
             Registries(1, {TRUE}, {"block"}), {1}, {0})

NextLazy ==
    \/ Next
    \/ NewCall
    \/ \E cls \in GuardClasses : RegisterPlugin(cls)
    \/ RegisterGlobal(PluginClass(1, PRE_IDENTITY, TRUE, "block"))
    \/ \E ph \in PlanePhase, i \in 1..MaxPlugins : PeerCheck(ph, i)
    \/ PeerCreate

SpecLazy == InitLazy /\ [][NextLazy]_vars

\* C26: the guard never makes a second instance under a plugin name.
C26_OneInstance ==
    \A n \in DOMAIN made : made[n] <= 1

\* plugin n was started in the call at hand
Ran(n) == \E e \in started : e[1] = n

\* the call at hand is past the plugins of phase ph
PastPhase(ph) ==
    \/ stage > RankOfPhase(ph)
    \/ stage = RankOfPhase(ph) /\ pc \in {"log", "returned", "raised"}

\* C27: a plugin whose instance is disabled is not executed by a call and has
\* no entry in the call's plane_results, while get(name) still returns its
\* class; once its instance is enabled again, a call that gets to its phase
\* executes it.
C27_DisabledSkipped ==
    \A n \in DOMAIN instances :
        /\ Get(global_registry, registry, n) = instances[n].cls
        /\ ~instances[n].enabled =>
              /\ ~Ran(n)
              /\ n \notin DOMAIN verdicts
              /\ instances[n].cls.reports \notin DOMAIN plane_results
        /\ (instances[n].enabled /\ PastPhase(instances[n].cls.phase)) =>
              Ran(n)

C27_Witness ==
    /\ "p1" \in skipped
    /\ instances["p1"].enabled
    /\ Ran("p1")
    /\ "p1" \in DOMAIN plane_results
    /\ pc = "returned"

\* the four checks before compliance have run in the call and passed
FourPassed ==
    \A b \in {"identity", "intent", "context", "economics"} :
        /\ b \in DOMAIN plane_results
        /\ plane_results[b].by = b
        /\ plane_results[b].passed

\* C28: when identity, intent, context and economics have passed, the result
\* of the compliance check is in plane_results under "compliance" from the
\* moment the check is done, and the call returns ALLOW whether that result
\* is passed or failed.
C28_ComplianceAdvisory ==
    (FourPassed /\ "compliance" \in finished) =>
        /\ "compliance" \in DOMAIN plane_results
        /\ plane_results["compliance"].by = "compliance"
        /\ pc \notin {"log", "returned", "raised"} => decision = NoDecision
        /\ pc \in {"log", "returned", "raised"} => decision.action = "ALLOW"
        /\ pc = "returned" =>
              /\ returned.action = "ALLOW"
              /\ returned.plane_results["compliance"] =
                     plane_results["compliance"]

C28_Witness ==
    /\ pc = "returned"
    /\ FourPassed
    /\ ~returned.plane_results["compliance"].passed
    /\ returned.action = "ALLOW"

\* C29: a call on a guard without plugins in which no built-in check failed
\* returns ALLOW with allowed=True and with plane_results holding exactly the
\* five built-in names.
C29_AllPassAllows ==
    (/\ pc = "returned"
     /\ Visible = << >>
     /\ \A b \in DOMAIN plane_results : plane_results[b].passed) =>
        /\ returned.action = "ALLOW"
        /\ returned.allowed
        /\ DOMAIN returned.plane_results = BuiltinNames
        /\ \A b \in BuiltinNames : returned.plane_results[b].passed

C29_Witness ==
    /\ pc = "returned"
    /\ Visible = << >>
    /\ instances = EmptyDict
    /\ returned.action = "ALLOW"
    /\ \A b \in BuiltinNames :
          b \in DOMAIN returned.plane_results /\ returned.plane_results[b].passed

(***************************************************************************)
(* adapters/redis.py lines 93-135 and 295-352: get, exists, set and delete *)
(* of RedisSessionStore and of AsyncRedisSessionStore against a server     *)
(* that may be unreachable and whose commands may fail.                    *)
(***************************************************************************)
NoRedisCall ==
    [n |-> 0, op |-> "", uid |-> "", ret |-> "", fault |-> FALSE,
     raised |-> FALSE]

\* RedisSessionStore pings in its constructor and raises when the server is
\* unreachable (lines 80-85), so the object exists only if the ping went
\* through; AsyncRedisSessionStore connects on first use (lines 284, 295-305)
InitRedis ==
    /\ InitCall({<< >>}, {1}, {0})
    /\ NoBatch
    /\ NoStore
    /\ NoData
    /\ NoReg
    /\ NoLife
    /\ NoMore
    /\ client \in [kind : {"sync", "async"}, connected : {FALSE}]
    /\ server \in [up : BOOLEAN, keys : {{}}]
    /\ client.kind = "sync" => server.up
    /\ rcall = NoRedisCall

\* what the call returns when its command went through
CommandResult(op, u, keys) ==
    CASE op = "get" -> IF u \in keys THEN "data" ELSE "None"
      [] op = "exists" -> Bool(u \in keys)
      [] op = "delete" -> Bool(u \in keys)
      [] op = "set" -> Bool(TRUE)

\* the keys of the server after the command
CommandKeys(op, u, keys) ==
    CASE op = "set" -> keys \cup {u}
      [] op = "delete" -> keys \ {u}
      [] OTHER -> keys

\* what the `except Exception` branch returns (lines 100-102, 116-118,
\* 125-127, 133-135 and their copies in the async class)
FaultResult(op) == IF op = "get" THEN "None" ELSE "False"

\* whether the call leaves the method with the exception of
\* _ensure_connected, which is awaited before the try block (lines 309, 321,
\* 338, 348) and re-raises when the ping fails (lines 303-305)
EnsureConnectedRaises(c, up) ==
    c.kind = "async" /\ ~c.connected /\ ~up

\* one call of get, exists, set or delete; a command fails when the server
\* is unreachable, and may fail when it is reachable (a timeout)
RedisCall(op, u) ==
    /\ rcall.n < MaxOps
    /\ IF EnsureConnectedRaises(client, server.up)
       THEN /\ rcall' = [n |-> rcall.n + 1, op |-> op, uid |-> u, ret |-> "",
                         fault |-> TRUE, raised |-> TRUE]
            /\ UNCHANGED <<client, server>>
       ELSE /\ client' = IF client.kind = "async"
                         THEN [client EXCEPT !.connected = TRUE] ELSE client
            /\ \E fails \in (IF server.up THEN BOOLEAN ELSE {TRUE}) :
                 IF fails
                 THEN /\ rcall' = [n |-> rcall.n + 1, op |-> op, uid |-> u,
                                   ret |-> FaultResult(op), fault |-> TRUE,
                                   raised |-> FALSE]
                      /\ UNCHANGED server
                 ELSE /\ rcall' = [n |-> rcall.n + 1, op |-> op, uid |-> u,
                                   ret |-> CommandResult(op, u, server.keys),
                                   fault |-> FALSE, raised |-> FALSE]
                      /\ server' = [server EXCEPT
                             !.keys = CommandKeys(op, u, server.keys)]
    /\ UNCHANGED <<callVars, batchVars, storeVars, dataVars, regVars, lifeVars,
                   moreVars>>

\* the server becomes unreachable, or reachable again
ServerFlip ==
    /\ server' = [server EXCEPT !.up = ~server.up]
    /\ UNCHANGED <<client, rcall>>
    /\ UNCHANGED <<callVars, batchVars, storeVars, dataVars, regVars, lifeVars,
                   moreVars>>

NextRedis ==
    \/ \E op \in {"get", "exists", "set", "delete"}, u \in TwoUserIds :
          RedisCall(op, u)
    \/ ServerFlip

SpecRedis == InitRedis /\ [][NextRedis]_vars

\* C30: a get, exists, set or delete call of either Redis store that meets an
\* unreachable server or a failing command does not raise: it returns None
\* (get) or False (the others).
C30_FaultsCaught ==
    rcall.fault => ~rcall.raised /\ rcall.ret = FaultResult(rcall.op)

(***************************************************************************)
(* async_guard/guard.py: the life of one AsyncGuard object, from the       *)
(* constructor call to close() and the exit of `async with`.               *)
(***************************************************************************)
\* calls made on one guard after its construction
MaxGuardCalls == 3

\* the mode argument is a str at run time: the three presets and two others
Modes == {"strict", "balanced", "permissive", "paranoid", ""}

\* _get_mode_config, lines 106-121: the preset the mode selects
GetModeConfig(mode) ==
    IF mode = "strict" THEN "strict"
    ELSE IF mode = "permissive" THEN "permissive"
    ELSE "balanced"

\* a caller is about to evaluate AsyncGuard(mode=...)
InitPool ==
    /\ InitCall({<< >>}, {1}, {0})
    /\ NoBatch
    /\ NoStore
    /\ NoData
    /\ NoReg
    /\ NoLife
    /\ NoRedis
    /\ NoBatcher
    /\ ctor \in [mode : Modes, done : {FALSE}, raised : {FALSE}, preset : {""}]
    /\ executor = [made |-> 0, shutdowns |-> 0, open |-> FALSE]
    /\ temp_pools = 0
    /\ gcall = [n |-> 0, op |-> "", raised |-> FALSE]

\* __init__, lines 75-104: the preset of the mode (line 76; no statement of
\* the constructor or of _get_mode_config raises for a mode), then the
\* thread pool (line 104)
Construct ==
    /\ ~ctor.done
    /\ ctor' = [ctor EXCEPT !.done = TRUE, !.preset = GetModeConfig(ctor.mode)]
    /\ executor' = [made |-> executor.made + 1, shutdowns |-> 0, open |-> TRUE]
    /\ UNCHANGED <<temp_pools, gcall>>
    /\ UNCHANGED <<callVars, batchVars, storeVars, dataVars, regVars, lifeVars,
                   redisVars, batcherVars>>

\* a guard exists and may be called once more
Usable == ctor.done /\ ~ctor.raised /\ gcall.n < MaxGuardCalls

\* inspect, lines 171-337: every path awaits loop.run_in_executor on
\* self._executor (lines 150, 342), which raises RuntimeError once the pool
\* has been shut down; no path creates a pool
GuardInspect ==
    /\ Usable
    /\ gcall' = [n |-> gcall.n + 1, op |-> "inspect",
                 raised |-> ~executor.open]
    /\ UNCHANGED <<ctor, executor, temp_pools>>
    /\ UNCHANGED <<callVars, batchVars, storeVars, dataVars, regVars, lifeVars,
                   redisVars, batcherVars>>

\* inspect_sync, lines 360-374: inside a running loop the call creates a
\* ThreadPoolExecutor of its own to run asyncio.run(self.inspect(...)) in
\* (lines 370-372); otherwise it runs inspect on the current loop (line 374)
GuardInspectSync(running) ==
    /\ Usable
    /\ gcall' = [n |-> gcall.n + 1, op |-> "inspect_sync",
                 raised |-> ~executor.open]
    /\ temp_pools' = IF running THEN temp_pools + 1 ELSE temp_pools
    /\ UNCHANGED <<ctor, executor>>
    /\ UNCHANGED <<callVars, batchVars, storeVars, dataVars, regVars, lifeVars,
                   redisVars, batcherVars>>

\* close (line 391) and __aexit__ (line 386): each calls
\* self._executor.shutdown
GuardShutdown(op) ==
    /\ Usable
    /\ gcall' = [n |-> gcall.n + 1, op |-> op, raised |-> FALSE]
    /\ executor' = [executor EXCEPT !.shutdowns = executor.shutdowns + 1,
                                    !.open = FALSE]
    /\ UNCHANGED <<ctor, temp_pools>>
    /\ UNCHANGED <<callVars, batchVars, storeVars, dataVars, regVars, lifeVars,
                   redisVars, batcherVars>>

NextPool ==
    \/ Construct
    \/ GuardInspect
    \/ \E running \in BOOLEAN : GuardInspectSync(running)
    \/ \E op \in {"close", "__aexit__"} : GuardShutdown(op)

SpecPool == InitPool /\ [][NextPool]_vars

\* C31: a guard that has been constructed has had exactly one pool created
\* for it, no call on it has created a pool, and over any sequence of
\* inspect, inspect_sync, close and `async with` exit shutdown has run on
\* the pool at most once.
C31_PoolOnce ==
    ctor.done /\ ~ctor.raised =>
        /\ executor.made = 1
        /\ temp_pools = 0
        /\ executor.shutdowns <= 1

\* C32: the constructor call with a mode other than strict, balanced and
\* permissive has raised, and no guard exists to be called.
C32_BadModeRejected ==
    ctor.done /\ ctor.mode \notin {"strict", "balanced", "permissive"} =>
        ctor.raised /\ gcall.n = 0

(***************************************************************************)
(* async_guard/guard.py lines 194-196, 229-231 and their copies: a plugin  *)
(* result is stored under result.plane_name, the name the plugin's         *)
(* evaluate wrote into the PlaneResult (tests/test_v020_features.py lines  *)
(* 66-72: a class named "test_plane" returning PlaneResult("test", ...)).  *)
(***************************************************************************)
\* the plane_name values a plugin's evaluate may write: its own name, the
\* name of another plugin, the name of a built-in check
ReportNames == BuiltinNames \cup {"p1", "p2"}

\* a registry whose classes report under the given names
Reporting(reg, rep) == [i \in DOMAIN reg |-> [reg[i] EXCEPT !.reports = rep[i]]]

\* one or two enabled plugins, each reporting under any of the names
ReportRegistries ==
    { Reporting(reg, rep) :
        reg \in Registries(1, {TRUE}, {"block"}) \cup
                Registries(2, {TRUE}, {"block"}),
        rep \in [1..2 -> ReportNames] }

InitReports == InitWith(ReportRegistries, {1}, {0})

SpecReports == InitReports /\ [][Next]_vars

\* C33: a call whose Decision is ALLOW has, in that call, run the identity,
\* intent, context and economics checks and each of them returned
\* passed=True, whatever the plugins returned or raised and under whatever
\* name they reported.
C33_AllowNeedsFour ==
    (pc \in {"log", "returned"} /\ decision.action = "ALLOW") =>
        /\ \A b \in {"identity", "intent", "context", "economics"} :
              /\ b \in finished
              /\ b \in DOMAIN outcomes
              /\ outcomes[b]
        /\ pc = "returned" => returned.action = "ALLOW"

\* an ALLOW returned by a call in which a plugin reported passed=False under
\* the name of a built-in check and another plugin raised
C33_Witness ==
    /\ pc = "returned"
    /\ returned.action = "ALLOW"
    /\ \E n \in DOMAIN verdicts : verdicts[n] = "raise"
    /\ \E n \in DOMAIN verdicts :
          /\ verdicts[n] = "fail"
          /\ Lookup(Visible, n).reports \in BuiltinNames

\* the results that the loops after _run_plugins have stored by the time the
\* call returns: every PlaneResult of a phase after PRE_IDENTITY, and those
\* of PRE_IDENTITY when the call went on to the identity check
StoredPlugin(n) ==
    /\ n \in DOMAIN verdicts
    /\ verdicts[n] # "raise"
    /\ Lookup(Visible, n).phase # PRE_IDENTITY \/ "identity" \in DOMAIN outcomes

\* C35: in a returned Decision every built-in check that ran has its result
\* under its own name, and every plugin result that was stored is still there
\* under a key of its own: no plugin result has replaced the entry of a
\* built-in or of another plugin.
C35_OneKeyPerCheck ==
    pc = "returned" =>
        /\ \A b \in DOMAIN outcomes :
              /\ b \in DOMAIN returned.plane_results
              /\ returned.plane_results[b] = [passed |-> outcomes[b], by |-> b]
        /\ \A n \in DOMAIN verdicts :
              StoredPlugin(n) =>
                  \E k \in DOMAIN returned.plane_results :
                      returned.plane_results[k] =
                          [passed |-> (verdicts[n] = "pass"), by |-> n]

(***************************************************************************)
(* async_guard/guard.py lines 135-145 with plugins/base.py lines 162-202:  *)
(* the guard's instance cache against a registry whose classes are         *)
(* replaced between the calls.                                             *)
(***************************************************************************)
\* registry.register(cls, override=...) on the guard's registry, between calls
RegisterBetweenCalls(cls, override) == pc = "idle" /\ Register(1, cls, override)

\* registry.unregister(name) on the guard's registry, between calls
UnregisterBetweenCalls(n) == pc = "idle" /\ Unregister(1, n)

NextStale ==
    \/ Next
    \/ NewCall
    \/ \E cls \in GuardClasses, o \in BOOLEAN : RegisterBetweenCalls(cls, o)
    \/ \E n \in {"p1"} : UnregisterBetweenCalls(n)
    \/ \E cls \in GuardClasses : RegisterPlugin(cls)

SpecStale == InitLazy /\ [][NextStale]_vars

\* C34: every instance a call hands to gather is an instance of the class
\* the registry returns for its name at that moment, also after the class
\* under the name was replaced with register(override=True) or with
\* unregister followed by register.
C34_InstanceOfCurrentClass ==
    pc = "gather" =>
        \A i \in DOMAIN tasks :
            instances[tasks[i]].cls = Get(global_registry, registry, tasks[i])

\* the call has reached line 289
ReachedEconomics == \E e \in started : e[1] = "economics"

\* C36: a call that ended without reaching the economics section (blocked by
\* a PRE_IDENTITY plugin, identity, intent or context) has left the session's
\* tokens_used as it was, and a call that reached it has added the length of
\* the prompt to tokens_used once, whether it went on to return DEGRADE or
\* ALLOW; at no moment of a call does tokens_used hold any other value.
C36_ChargedOnceAtEconomics ==
    /\ session.tokens_used =
          IF ReachedEconomics THEN session0.tokens_used + prompt
          ELSE session0.tokens_used
    /\ (pc \in {"returned", "raised"} /\ decision.action = "BLOCK") =>
          session = session0
    /\ (pc \in {"returned", "raised"} /\ decision.action \in {"DEGRADE", "ALLOW"}) =>
          session.tokens_used = session0.tokens_used + prompt

\* a call on a used session that returned DEGRADE with the prompt charged
C36_Witness ==
    /\ pc = "returned"
    /\ returned.action = "DEGRADE"
    /\ prompt = 2
    /\ session0.tokens_used = 1
    /\ session.tokens_used = 3

\* tokens_used of the record stored under u, -1 when there is none
TokensOf(st, h, u) == IF u \in DOMAIN st THEN h[st[u].obj].tokens_used ELSE -1

\* C37: no step of an update_trust call changes the tokens_used of the
\* record stored at that moment (the value the most recent write gave it),
\* whatever set and increment_tokens calls on the same
\* user_id run between its steps: neither a step of the get-modify-set
\* implementation of base.py (in-memory store, Redis fallback, async
\* stores) nor the Redis script.
C37_UpdateTrustKeepsTokens ==
    [][ /\ \A t \in DOMAIN threads :
              (/\ threads[t].op = "update_trust"
               /\ threads'[t] # threads[t]
               /\ threads[t].uid \in DOMAIN store) =>
                  TokensOf(store', heap', threads[t].uid) =
                      TokensOf(store, heap, threads[t].uid)
        /\ (ops' = ops + 1 /\ last'.op = "update_trust" /\ last'.ret = "True") =>
              TokensOf(store', heap', last'.uid) =
                  TokensOf(store, heap, last'.uid)
      ]_vars

(***************************************************************************)
(* adapters/base.py lines 139-151 and adapters/redis.py lines 182-220:     *)
(* what increment_tokens returns, for a count that may be 0.               *)
(***************************************************************************)
\* the count arguments: an empty prompt charges 0
Deltas == {0, 1}

\* one caller and no passing of time, so that a key is absent exactly when
\* it was never set or was deleted
NextIncrement ==
    \/ \E t \in DOMAIN threads, u \in UserIds, ttl \in TtlArgs :
          StoreSet(t, u, ttl)
    \/ \E t \in DOMAIN threads, u \in UserIds : StoreDelete(t, u)
    \/ \E t \in DOMAIN threads, u \in UserIds, n \in Deltas :
          UpdateBegin(t, u, "increment_tokens", n)
    \/ \E t \in DOMAIN threads : UpdateLoad(t)
    \/ \E t \in DOMAIN threads : UpdateStore(t)
    \/ \E t \in DOMAIN threads : UpdateSeen(t)
    \/ \E t \in DOMAIN threads : UpdateSet(t)
    \/ \E t \in DOMAIN threads, u \in UserIds, n \in Deltas :
          RedisScript(t, u, "increment_tokens", n)

SpecIncrement == InitAbsent /\ [][NextIncrement]_vars

\* C38: an increment_tokens call has returned True exactly when the key was
\* there when it was made, and a call on an absent key has returned False
\* and left the key absent, for every count and every stored tokens_used, in
\* the in-memory store and in the Redis store.
C38_IncrementResult ==
    last.op = "increment_tokens" =>
        /\ last.ret = "True" <=> ~last.absent
        /\ (last.absent /\ last.n = ops) => last.uid \notin DOMAIN store

(***************************************************************************)
(* async_guard/utils.py lines 103-202: AsyncBatcher.  A request is the     *)
(* tuple (args, kwargs, future) that submit puts on the queue; requests    *)
(* are numbered in the order of the submit calls, and request r carries    *)
(* the arguments r.                                                        *)
(***************************************************************************)
\* submit calls made on one batcher
MaxRequests == 3

\* the batch_size argument of the constructor
MaxBatch == 2

\* how func(*args, **kwargs) may end: it returns a value, raises an
\* Exception, raises asyncio.CancelledError (a BaseException), or returns an
\* object that is an Exception instance
FuncOutcomes == {"value", "raises", "raises_cancelled", "returns_exception"}

\* requests are alike before they are made
InitBatcher ==
    /\ InitCall({<< >>}, {1}, {0})
    /\ NoBatch
    /\ NoStore
    /\ NoData
    /\ NoReg
    /\ NoLife
    /\ NoRedis
    /\ NoPool
    /\ NoBatcher

\* the _processor task is between its first statement and its end
Running(p) == p.state \in {"collect", "gather"}

\* lines 188-192, asyncio.gather(*tasks, return_exceptions=True): per request
\* of the batch, in list order, one object: the value func returned, or the
\* exception it raised (a CancelledError instance for a call that ended
\* cancelled); `of` names the request whose arguments func was called with
Gather(bt, fs) ==
    [i \in DOMAIN bt |->
        LET r == bt[i]
        IN  [obj |-> IF fs[r].func = "value" THEN "value"
                     ELSE IF fs[r].func = "raises_cancelled"
                     THEN "CancelledError" ELSE "Exception",
             of |-> r]]

\* line 196, isinstance(result, Exception)
IsException(res) == res.obj = "Exception"

\* index of the first request of the batch whose future is done already, 0
\* if none: set_result and set_exception raise InvalidStateError on it
FirstDone(bt, fs) ==
    LET done == {i \in DOMAIN bt : fs[bt[i]].state # "pending"}
    IN  IF done = {} THEN 0
        ELSE CHOOSE i \in done : \A j \in done : i <= j

\* lines 195-199, the loop over zip(batch, results) run over the first n
\* pairs
RECURSIVE DeliverResults(_, _, _, _)
DeliverResults(fs, bt, res, n) ==
    IF n = 0 THEN fs
    ELSE LET before == DeliverResults(fs, bt, res, n - 1)
         IN  [before EXCEPT ![bt[n]] =
                 [@ EXCEPT !.state = IF IsException(res[n]) THEN "exception"
                                     ELSE "result",
                           !.got = res[n]]]

\* submit, lines 158-163: start the processor if _started is false (lines
\* 138-140), create the future, put the request, await the future
Submit(how) ==
    /\ Len(futures) < MaxRequests
    /\ futures' = Append(futures, [state |-> "pending", func |-> how,
                                   got |-> [obj |-> "", of |-> 0]])
    /\ bqueue' = Append(bqueue, Len(futures) + 1)
    /\ IF b_started
       THEN UNCHANGED <<processor, b_started>>
       ELSE /\ processor' = [state |-> "collect", batch |-> << >>]
            /\ b_started' = TRUE
    /\ UNCHANGED <<callVars, batchVars, storeVars, dataVars, regVars, lifeVars,
                   redisVars, poolVars>>

\* the task awaiting submit is cancelled: the await of line 163 cancels the
\* future
CancelSubmit(r) ==
    /\ r \in DOMAIN futures
    /\ futures[r].state = "pending"
    /\ futures' = [futures EXCEPT ![r].state = "cancelled"]
    /\ UNCHANGED <<bqueue, processor, b_started>>
    /\ UNCHANGED <<callVars, batchVars, storeVars, dataVars, regVars, lifeVars,
                   redisVars, poolVars>>

\* lines 172-182: the processor takes a request from the queue
ProcTake ==
    /\ processor.state = "collect"
    /\ bqueue # << >>
    /\ Len(processor.batch) < MaxBatch
    /\ processor' = [processor EXCEPT !.batch = Append(@, Head(bqueue))]
    /\ bqueue' = Tail(bqueue)
    /\ UNCHANGED <<futures, b_started>>
    /\ UNCHANGED <<callVars, batchVars, storeVars, dataVars, regVars, lifeVars,
                   redisVars, poolVars>>

\* lines 172-192: the batch is full or the deadline has passed, and the
\* processor calls func for every request of the batch and awaits the gather
ProcRun ==
    /\ processor.state = "collect"
    /\ processor.batch # << >>
    /\ processor' = [processor EXCEPT !.state = "gather"]
    /\ UNCHANGED <<bqueue, futures, b_started>>
    /\ UNCHANGED <<callVars, batchVars, storeVars, dataVars, regVars, lifeVars,
                   redisVars, poolVars>>

\* lines 192-199: gather returns and the loop sets the futures; on a future
\* that is done already set_result raises InvalidStateError, which ends the
\* task with the rest of the batch undelivered
ProcDeliver ==
    /\ processor.state = "gather"
    /\ LET res == Gather(processor.batch, futures)
           k == FirstDone(processor.batch, futures)
       IN  IF k = 0
           THEN /\ futures' = DeliverResults(futures, processor.batch, res,
                                             Len(processor.batch))
                /\ processor' = [state |-> "collect", batch |-> << >>]
           ELSE /\ futures' = DeliverResults(futures, processor.batch, res,
                                             k - 1)
                /\ processor' = [state |-> "dead", batch |-> << >>]
    /\ UNCHANGED <<bqueue, b_started>>
    /\ UNCHANGED <<callVars, batchVars, storeVars, dataVars, regVars, lifeVars,
                   redisVars, poolVars>>

\* stop, lines 142-150: nothing without a task; otherwise cancel the task
\* and await it: a task that ended with InvalidStateError re-raises it at
\* line 147 and line 150 is not reached; a running task ends cancelled, the
\* gather it awaited with it, and _started becomes false
Stop ==
    /\ processor.state # "none"
    /\ IF processor.state = "dead"
       THEN UNCHANGED <<processor, b_started>>
       ELSE /\ processor' = [state |-> "cancelled", batch |-> << >>]
            /\ b_started' = FALSE
    /\ UNCHANGED <<bqueue, futures>>
    /\ UNCHANGED <<callVars, batchVars, storeVars, dataVars, regVars, lifeVars,
                   redisVars, poolVars>>

NextBatcher ==
    \/ \E how \in FuncOutcomes : Submit(how)
    \/ \E r \in DOMAIN futures : CancelSubmit(r)
    \/ ProcTake
    \/ ProcRun
    \/ ProcDeliver
    \/ Stop

SpecBatcher == InitBatcher /\ [][NextBatcher]_vars

\* C39: a submit call that has resolved has resolved with the outcome of
\* func on its own arguments: it returns the value when func returned one and
\* raises the exception when func raised one, whatever the other requests of
\* its batch did.
C39_OwnOutcome ==
    \A r \in DOMAIN futures :
        futures[r].state \in {"result", "exception"} =>
            /\ futures[r].got.of = r
            /\ futures[r].state = "exception" <=>
                  futures[r].func \in {"raises", "raises_cancelled"}

\* C40: a request that is still unresolved is on the queue or in the batch
\* of a processor task that is running, so that it is resolved once the
\* processor gets its turns, whatever cancellations and stop calls came
\* before.
C40_PendingIsServed ==
    \A r \in DOMAIN futures :
        futures[r].state = "pending" =>
            /\ Running(processor)
            /\ \/ \E i \in DOMAIN bqueue : bqueue[i] = r
               \/ \E i \in DOMAIN processor.batch : processor.batch[i] = r

====
